---- MODULE Spec2Model ----
(***************************************************************************)
(* The streaming quote client (TradingViewWebSocketProvider), the quote    *)
(* feed handlers that own it (StartQuoteFeedHandler, StopQuoteFeedHandler, *)
(* QuoteServiceState.on_quote_update) and the bar aggregator (BarManager)  *)
(* as one asyncio program.                                                 *)
(*                                                                         *)
(* asyncio runs one coroutine at a time and switches only at an await that *)
(* suspends, so every action below is the code between two such awaits.    *)
(* An await that may or may not suspend (ws.send) is a place where other   *)
(* tasks may, but need not, run.                                           *)
(***************************************************************************)
EXTENDS Integers, Sequences, FiniteSets, TLC

\* ------------------------------------------------------------------ bounds
\* transports websockets.connect hands out in one run
MaxTransports == 2
\* direct subscribe / unsubscribe calls in one run
MaxApiCalls == 2
\* protocol messages in one inbound chunk
MaxChunkLen == 2
\* consecutive backoff sleeps that are counted (the delay is at its ceiling well before)
MaxStreak == 7
\* add_tick / flush_all_bars calls made directly on one BarManager
MaxAggCalls == 4
\* update_one and Cache.set calls of the direct caller that raise
MaxRaises == 1
\* ticks fed to one BarBuilder
MaxFeed == 3
\* windows after the epoch from which alignment is probed
MaxMultiple == 1
\* frames and fragments in one raw chunk
MaxPieces == 3
\* parameters of one encoded message
MaxParams == 2
\* the interpreter's recursion limit, sys.getrecursionlimit(), 1000 in CPython
RecursionLimit == 1000
\* frames of the interpreter's stack that are in use when json.loads starts to
\* scan a chunk, at most
MaxFrames == 100
\* tasks that call one BarManager concurrently
MaxTasks == 2
\* add_tick / flush_all_bars calls those tasks make in one run
MaxLockCalls == 3
\* handler tasks that run Start / Stop commands concurrently
MaxHandlers == 2
\* Start / Stop commands those tasks run in one run
MaxCommands == 3

\* --------------------------------------------------------- program constants
FloorDelay == 1
MaxReconnectDelay == 60

Keys == {"NASDAQ:AAPL", "NYSE:TSLA"}
NoKey == ""
\* last prices a quote update may carry; 0 stands for a missing "lp" field (None)
Prices == {0, 10}

Procs == {"start", "rf", "stop", "disc"}

VARIABLES
    \* TradingViewWebSocketProvider
    ws,               \* _ws: 0 is None, else the transport object
    session_id,       \* _session_id: 0 is "", else the n-th generated id
    subscriptions,    \* _subscriptions: its keys, in insertion order
    running,          \* _running
    reconnect_delay,  \* _reconnect_delay
    \* the network
    tstate,           \* each transport: "unused", "open", "closed_ok", "closed_err"
    sent,             \* every frame handed to a transport's send(), in order
    sid_gen,          \* session ids generated so far
    \* tasks
    pc,               \* where each coroutine is suspended
    rf_resub,         \* run_forever: keys of the resubscription loop still to send
    rf_chunk,         \* run_forever: messages of the current chunk, head in flight
    rf_iter,          \* run_forever: the transport the async-for iterates
    rf_cancel,        \* Task.cancel() was requested on the run_forever task
    \* QuoteServiceState
    state_running,    \* state.running
    ws_task,          \* state.ws_task is not None
    \* the command handlers run as concurrent tasks
    handlers,         \* per handler task: its command, where it is suspended, its result
    cmd_count,        \* Start / Stop commands issued to those tasks
    rf_tasks,         \* every run_forever task created by them: its state, and
                      \* whether cancel() was requested on it
    ws_task_id,       \* state.ws_task: 0 is None, else the task it refers to
    \* BarManager and its collaborators
    bars,             \* _bars: symbol_key -> interval -> builder
    bars_order,       \* _bars: its keys in insertion order, each with its
                      \* intervals in insertion order
    storage,          \* the ohlcv collection: upserted bars
    quote_cache,      \* quote:latest:<exchange>:<symbol>
    \* what the callers saw
    api_calls,        \* direct subscribe / unsubscribe calls made
    last_call,        \* the last subscribe / unsubscribe call, and how it ended
    api_run,          \* the subscribe / unsubscribe call that is suspended in
                      \* ws.send: what was called, and its key
    start_raised,     \* the last StartQuoteFeed command that called connect() ended
                      \* with connect()'s exception
    unsub,            \* the UnsubscribeCommand in progress or handled last: its
                      \* key, where its handler is suspended, how it ended
    sync,             \* the sync handler's _upsert_many in progress: the records it
                      \* built, their created_at, and the bulk_write it awaits
    \* history (read by the properties only)
    recon,            \* the reconnect run_forever completed for its current transport
    streak,           \* backoff sleeps started since the last successful connect()
    conn_fails,       \* failed connect() attempts since the last successful one
    stale_dropped,    \* the last step of run_forever discarded an update that only
                      \* the session check kept from its callback
    \* direct use of the aggregator and of its pure parts
    agg_calls,        \* add_tick / flush_all_bars calls made directly on the BarManager
    agg_run,          \* the call in progress: what it has upserted and published so far
    agg_last,         \* the last such call: its tick, what it upserted and published,
                      \* and how it ended
    lock,             \* BarManager._lock: 0 is unlocked, else the task that holds it
    lock_waiters,     \* _lock._waiters: the tasks suspended in acquire(), in order
    tasks,            \* per task: its add_tick / flush_all_bars call, where it is
                      \* suspended and the I/O call it awaits
    bar_cache,        \* bar:current:<exchange>:<symbol>:<interval>, as the concurrent
                      \* callers publish and read it
    got,              \* the last get_current_bar call and what it returned
    builder,          \* a BarBuilder of bar_manager.py fed on its own
    dbuilder,         \* a BarBuilder of domain/ohlcv/services/bar_builder.py, fed the same
    fed,              \* the ticks those two builders were fed, with what add_tick returned
    probe,            \* one call of _get_bar_start / get_bar_start and its result
    codec             \* one call of _create_message / _parse_messages, or one raw
                      \* chunk taken by the receive loop, and what came of it

vars == <<ws, session_id, subscriptions, running, reconnect_delay, tstate, sent,
          sid_gen, pc, rf_resub, rf_chunk, rf_iter, rf_cancel, state_running,
          ws_task, handlers, cmd_count, rf_tasks, ws_task_id, bars, bars_order, storage, quote_cache, api_calls, last_call, api_run, start_raised, unsub, sync, recon,
          streak, conn_fails, stale_dropped, agg_calls, agg_run, agg_last, lock,
          lock_waiters, tasks, bar_cache, got, builder,
          dbuilder, fed, probe, codec>>

provider == <<ws, session_id, subscriptions, running, reconnect_delay>>
network == <<tstate, sent, sid_gen>>
rfLocals == <<rf_resub, rf_chunk, rf_iter>>
commands == <<handlers, cmd_count, rf_tasks, ws_task_id>>
feed == <<state_running, ws_task, commands>>
aggregator == <<bars, bars_order, storage, quote_cache>>
bar_map == <<bars, bars_order>>
callers == <<api_calls, last_call, api_run, start_raised, unsub, sync>>
history == <<recon, streak, conn_fails, stale_dropped>>
concurrent == <<lock, lock_waiters, tasks, bar_cache, got>>
direct == <<agg_calls, agg_run, agg_last, lock, lock_waiters, tasks, bar_cache, got>>
units == <<builder, dbuilder, fed, probe, codec>>

Transports == 1..MaxTransports

Min(a, b) == IF a < b THEN a ELSE b
Range(s) == {s[i] : i \in 1..Len(s)}


\* ---------------------------------------------------------------- helpers
\* dict[key] = callback on an insertion-ordered dict: a present key keeps its place
DictSet(d, k) == IF k \in Range(d) THEN d ELSE Append(d, k)
\* del dict[key]
DictDel(d, k) == SelectSeq(d, LAMBDA x : x # k)

\* {} and d[k] = v on a dict whose key order does not matter
EmptyDict == [x \in {} |-> x]
DictPut(d, k, v) == [x \in DOMAIN d \cup {k} |-> IF x = k THEN v ELSE d[x]]

\* _generate_session_id: 12 random characters, modelled as an id never handed out before
GenerateSessionId == sid_gen + 1

\* the frame _create_message builds, with the transport it is written to and, for
\* the properties, the newest session id generated when it was sent
Frame(t, method, sid, key, gen) ==
    [t |-> t, m |-> method, sid |-> sid, key |-> key, gen |-> gen]

\* connect(): params of quote_create_session, given the id just generated
CreateSessionParams(new_sid) == new_sid
\* connect(): first param of quote_set_fields
SetFieldsParams == session_id
\* the id of the first session, whatever the current one is
FirstSessionId == Min(session_id, 1)
\* run_forever, subscribe: first param of quote_add_symbols
AddSymbolsParams == session_id
\* unsubscribe: first param of quote_remove_symbols
RemoveSymbolsParams == session_id

\* _send_message succeeds: _ws is not None and the transport's send() does not raise
CanSend == ws # 0 /\ tstate[ws] = "open"
\* what _send_message raises otherwise
SendError == IF ws = 0 THEN "RuntimeError" ELSE "ConnectionClosed"

\* is_connected()
IsConnected == ws # 0 /\ tstate[ws] = "open"

\* a backoff that grows by one second instead of doubling
NextDelayLinear(d) == Min(d + 1, MaxReconnectDelay)
\* run_forever: the delay after a backoff sleep
NextDelay(d) == Min(d * 2, MaxReconnectDelay)

\* a connect() that leaves the delay as it found it
KeepDelay(d) == d
\* connect(): self._reconnect_delay = 1.0, its last statement
ResetDelay(d) == FloorDelay

\* a session check that lets every update through
AnySession(msg) == TRUE
\* _handle_quote_update: the session check on a qsd message
SessionMatches(msg) == msg.sid = session_id

\* a resubscription that forgets the first key
AllButFirst(subs) == IF subs = <<>> THEN subs ELSE Tail(subs)
\* run_forever: list(self._subscriptions.keys()), the snapshot the resubscription
\* loop iterates
ResubKeys(subs) == subs

\* the transport websockets.connect returns next
NextTransport == CHOOSE t \in Transports :
    tstate[t] = "unused" /\ \A u \in Transports : tstate[u] = "unused" => t <= u

\* ------------------------------------------------------ inbound messages
Qsd(sid, n, lp) == [m |-> "qsd", sid |-> sid, n |-> n, lp |-> lp]
Other == [m |-> "quote_completed", sid |-> 0, n |-> NoKey, lp |-> 0]
\* the messages a server that has seen sessions 1..sid_gen can send
Messages == {Qsd(s, n, lp) : s \in 1..sid_gen, n \in Keys, lp \in Prices} \cup {Other}
Chunks == UNION {[1..n -> Messages] : n \in 1..MaxChunkLen}

\* _handle_quote_update reaches the callback and the callback suspends in Cache.set:
\* the session matches, a callback is registered for the key, and the update has a price
Suspends(msg) ==
    /\ msg.m = "qsd"
    /\ SessionMatches(msg)
    /\ msg.n \in Range(subscriptions)
    /\ msg.lp # 0

\* the messages left once every leading message that is handled without suspending is done
RECURSIVE DropHandled(_)
DropHandled(msgs) ==
    IF msgs = <<>> \/ Suspends(Head(msgs)) THEN msgs ELSE DropHandled(Tail(msgs))

\* a qsd of a session that existed before the current one
IsStale(msg) == msg.m = "qsd" /\ msg.sid >= 1 /\ msg.sid < session_id
\* a stale qsd that would reach its callback and the cache but for the session check
OnlySessionDiffers(msg) ==
    IsStale(msg) /\ msg.n \in Range(subscriptions) /\ msg.lp # 0

\* ------------------------------------------------------------ the frame codec
\* a str is the sequence of its characters; the characters used are "~", the
\* letters a b d h m p q s x, the digits, the space and the JSON punctuation
\* { } [ ] " : , -- none of which json.dumps escapes
FrameMark == <<"~", "m", "~">>
HeartbeatMark == <<"~", "h", "~">>
Quote == "\""
Digits == <<"0", "1", "2", "3", "4", "5", "6", "7", "8", "9">>
IsDigit(c) == \E n \in 1..10 : Digits[n] = c
DigitValue(c) == (CHOOSE n \in 1..10 : Digits[n] = c) - 1

\* the element of a one-element set: Only({e(x) : x \in {d}}) is e(d), with d
\* worked out once however often e uses it
Only(S) == CHOOSE x \in S : TRUE

\* str(n) of a non-negative int
RECURSIVE Decimal(_)
Decimal(n) ==
    IF n < 10 THEN <<Digits[n + 1]>> ELSE Decimal(n \div 10) \o <<Digits[(n % 10) + 1]>>
\* int(s) of a run of digits
RECURSIVE IntOf(_)
IntOf(s) == IF s = <<>> THEN 0 ELSE 10 * IntOf(SubSeq(s, 1, Len(s) - 1)) + DigitValue(s[Len(s)])

\* s[i:].startswith(p), i counted from 1
StartsWithAt(s, i, p) == i + Len(p) - 1 <= Len(s) /\ SubSeq(s, i, i + Len(p) - 1) = p
StartsWith(s, p) == StartsWithAt(s, 1, p)
\* the index after the longest run of digits that starts at i
RECURSIVE DigitsEnd(_, _)
DigitsEnd(s, i) == IF i <= Len(s) /\ IsDigit(s[i]) THEN DigitsEnd(s, i + 1) ELSE i

\* JSON values: str, int, list and dict (a function of its keys), each a record
\* with one field, named after its type
JStr(s) == [str |-> s]
JNum(n) == [num |-> n]
JList(xs) == [list |-> xs]
JDict(f) == [dict |-> f]
TypeOf(x) == CHOOSE t \in DOMAIN x : TRUE
\* {"m": method, "p": params}
Message(method, params) ==
    JDict([k \in {<<"m">>, <<"p">>} |-> IF k = <<"m">> THEN JStr(method) ELSE JList(params)])

\* json.dumps of a str, an int or a list of them, with its default separators
RECURSIVE Dumps(_)
RECURSIVE DumpsItems(_)
DumpsItems(xs) ==
    IF xs = <<>> THEN <<>>
    ELSE IF Len(xs) = 1 THEN Dumps(xs[1])
    ELSE Dumps(xs[1]) \o <<",", " ">> \o DumpsItems(Tail(xs))
Dumps(x) ==
    CASE TypeOf(x) = "str" -> <<Quote>> \o x.str \o <<Quote>>
      [] TypeOf(x) = "num" -> Decimal(x.num)
      [] TypeOf(x) = "list" -> <<"[">> \o DumpsItems(x.list) \o <<"]">>

\* json.dumps({"m": method, "p": params}): the keys in insertion order
DumpsMessage(method, params) ==
    <<"{", Quote, "m", Quote, ":", " ">> \o Dumps(JStr(method))
        \o <<",", " ", Quote, "p", Quote, ":", " ">> \o Dumps(JList(params)) \o <<"}">>

\* f"~m~{len(body)}~m~{body}"
Framed(body) == FrameMark \o Decimal(Len(body)) \o FrameMark \o body

\* _create_message
CreateMessage(method, params) == Framed(DumpsMessage(method, params))

\* a marker whose length field is one digit: ~m~\d~m~
MarkerEndOneDigit(s, i) ==
    IF StartsWithAt(s, i, FrameMark) /\ i + 3 <= Len(s) /\ IsDigit(s[i + 3])
           /\ StartsWithAt(s, i + 4, FrameMark)
    THEN i + 7 ELSE 0
\* the index after a match of ~m~\d+~m~ that starts at i, or 0 if none does
MarkerEnd(s, i) ==
    IF ~StartsWithAt(s, i, FrameMark) THEN 0
    ELSE LET e == DigitsEnd(s, i + 3)
         IN  IF e > i + 3 /\ StartsWithAt(s, e, FrameMark) THEN e + 3 ELSE 0
\* where a match of ~m~\d+~m~ starts at or after `from`, leftmost; 0 if nowhere
NextMarker(s, from) ==
    LET at == {i \in from..Len(s) : MarkerEnd(s, i) # 0}
    IN  IF at = {} THEN 0 ELSE CHOOSE i \in at : \A j \in at : i <= j
\* re.split(r"~m~\d+~m~", s): the text between the matches, leftmost first
RECURSIVE SplitFrom(_, _)
SplitFrom(s, start) ==
    Only({IF m = 0 THEN <<SubSeq(s, start, Len(s))>>
          ELSE <<SubSeq(s, start, m - 1)>> \o SplitFrom(s, MarkerEnd(s, m))
            : m \in {NextMarker(s, start)}})
ReSplit(s) == SplitFrom(s, 1)

\* str.strip()
RECURSIVE Strip(_)
Strip(s) ==
    IF s # <<>> /\ s[1] = " " THEN Strip(Tail(s))
    ELSE IF s # <<>> /\ s[Len(s)] = " " THEN Strip(SubSeq(s, 1, Len(s) - 1))
    ELSE s

\* json.loads: the scanner. A result is the value and the index after it, or the
\* exception raised
Scanned(v, next) == [err |-> "none", v |-> v, next |-> next]
ScanFails(err) == [err |-> err, v |-> JList(<<>>), next |-> 0]
RECURSIVE SkipWs(_, _)
SkipWs(s, i) == IF i <= Len(s) /\ s[i] = " " THEN SkipWs(s, i + 1) ELSE i

\* a string: up to the next quote (no character used needs an escape)
ScanString(s, i) ==
    LET ends == {j \in (i + 1)..Len(s) : s[j] = Quote}
    IN  IF ends = {} THEN ScanFails("JSONDecodeError")
        ELSE LET j == CHOOSE e \in ends : \A f \in ends : e <= f
             IN  Scanned(JStr(SubSeq(s, i + 1, j - 1)), j + 1)
\* a number: 0, or a run of digits that does not start with 0
ScanNumber(s, i) ==
    IF s[i] = "0" THEN Scanned(JNum(0), i + 1)
    ELSE Scanned(JNum(IntOf(SubSeq(s, i, DigitsEnd(s, i) - 1))), DigitsEnd(s, i))

\* the "[" that open one inside the other from s[i] on, with nothing but
\* whitespace between them: the scanner descends through all of them before it
\* reads anything else
OpensAt(s, i) ==
    LET stops == {j \in i..Len(s) : s[j] \notin {"[", " "}}
    IN  IF stops = {} THEN Cardinality({j \in i..Len(s) : s[j] = "["})
        ELSE Cardinality({j \in i..Len(s) : s[j] = "[" /\ \A e \in stops : j < e})

\* the run of "[" at s[i] reaches the end of the text: the scanner descends
\* through all of it and finds no value
OpenToEnd(s, i) == \A j \in i..Len(s) : s[j] \in {"[", " "}

\* The nesting json.loads has room for. Its scanner calls itself for every list
\* or dict it enters, and where that stops is the interpreter's affair: CPython
\* up to 3.11 counts those calls against sys.getrecursionlimit() together with
\* the frames in use, and raises RecursionError when the two reach the limit;
\* CPython from 3.12 on counts them apart, against a limit no chunk here comes
\* near. The program names no interpreter, so a decode runs with either.
Room(depth) == [limited |-> TRUE, depth |-> depth]
NoLimit == [limited |-> FALSE, depth |-> 0]
NestRooms == {Room(RecursionLimit - MaxFrames), NoLimit}
Exceeds(room, depth) == room.limited /\ depth > room.depth

RECURSIVE ScanValue(_, _, _, _)
RECURSIVE ScanItems(_, _, _, _, _)
RECURSIVE ScanPairs(_, _, _, _, _)
\* the items of a list after "[" or ",": value, then "," or "]"
ScanItems(s, i, depth, acc, room) ==
    Only({LET j == SkipWs(s, r.next)
          IN  IF r.err # "none" THEN r
              ELSE IF j > Len(s) THEN ScanFails("JSONDecodeError")
              ELSE IF s[j] = ","
              THEN ScanItems(s, SkipWs(s, j + 1), depth, Append(acc, r.v), room)
              ELSE IF s[j] = "]" THEN Scanned(JList(Append(acc, r.v)), j + 1)
              ELSE ScanFails("JSONDecodeError")
            : r \in {ScanValue(s, i, depth, room)}})
\* the pairs of a dict after "{" or ",": "key", ":", value, then "," or "}"
ScanPairs(s, i, depth, acc, room) ==
    IF i > Len(s) \/ s[i] # Quote THEN ScanFails("JSONDecodeError")
    ELSE LET k == ScanString(s, i)
             c == SkipWs(s, k.next)
         IN  IF k.err # "none" THEN k
             ELSE IF c > Len(s) \/ s[c] # ":" THEN ScanFails("JSONDecodeError")
             ELSE Only({LET j == SkipWs(s, r.next)
                            put == [x \in DOMAIN acc \cup {k.v.str} |->
                                       IF x = k.v.str THEN r.v ELSE acc[x]]
                        IN  IF r.err # "none" THEN r
                            ELSE IF j > Len(s) THEN ScanFails("JSONDecodeError")
                            ELSE IF s[j] = ","
                            THEN ScanPairs(s, SkipWs(s, j + 1), depth, put, room)
                            ELSE IF s[j] = "}" THEN Scanned(JDict(put), j + 1)
                            ELSE ScanFails("JSONDecodeError")
                          : r \in {ScanValue(s, SkipWs(s, c + 1), depth, room)}})
\* one value, with `depth` lists and dicts around it; a list or dict nested
\* deeper than the interpreter has room for raises RecursionError
ScanValue(s, i, depth, room) ==
    IF i > Len(s) THEN ScanFails("JSONDecodeError")
    ELSE IF s[i] = Quote THEN ScanString(s, i)
    ELSE IF IsDigit(s[i]) THEN ScanNumber(s, i)
    ELSE IF s[i] = "{" /\ Exceeds(room, depth + 1) THEN ScanFails("RecursionError")
    ELSE IF s[i] = "[" /\ Exceeds(room, depth + OpensAt(s, i))
    THEN ScanFails("RecursionError")
    ELSE IF s[i] = "[" /\ OpenToEnd(s, i) THEN ScanFails("JSONDecodeError")
    ELSE IF s[i] = "["
         THEN IF SkipWs(s, i + 1) <= Len(s) /\ s[SkipWs(s, i + 1)] = "]"
              THEN Scanned(JList(<<>>), SkipWs(s, i + 1) + 1)
              ELSE ScanItems(s, SkipWs(s, i + 1), depth + 1, <<>>, room)
    ELSE IF s[i] = "{"
         THEN IF SkipWs(s, i + 1) <= Len(s) /\ s[SkipWs(s, i + 1)] = "}"
              THEN Scanned(JDict(EmptyDict), SkipWs(s, i + 1) + 1)
              ELSE ScanPairs(s, SkipWs(s, i + 1), depth + 1, EmptyDict, room)
    ELSE ScanFails("JSONDecodeError")
\* json.loads(s) on an interpreter with that room: one value and nothing after
\* it but whitespace
Loads(s, room) ==
    Only({IF r.err = "none" /\ SkipWs(s, r.next) <= Len(s)
          THEN ScanFails("JSONDecodeError") ELSE r
            : r \in {ScanValue(s, SkipWs(s, 1), 0, room)}})

\* _parse_messages: a part is parsed unless it is empty or starts with "~h~"
TakesPart(part) == part # <<>> /\ ~StartsWith(part, HeartbeatMark)

\* _parse_messages: the loop over the parts; RecursionError is not caught
RECURSIVE ParseParts(_, _, _)
ParseParts(parts, messages, room) ==
    IF parts = <<>> THEN [raised |-> "none", messages |-> messages]
    ELSE Only({IF ~TakesPart(part) THEN ParseParts(Tail(parts), messages, room)
               ELSE Only({IF data.err = "none"
                          THEN ParseParts(Tail(parts), Append(messages, data.v), room)
                          ELSE IF data.err = "JSONDecodeError"
                          THEN ParseParts(Tail(parts), messages, room)
                          ELSE [raised |-> data.err, messages |-> <<>>]
                            : data \in {Loads(part, room)}})
                 : part \in {Strip(Head(parts))}})
ParseMessages(raw_data, room) ==
    Only({ParseParts(parts, <<>>, room) : parts \in {ReSplit(raw_data)}})

\* ------------------------------------------- the receive loop on a raw chunk
\* dict.get(key, default) on a JSON dict
JGet(d, key, default) == IF key \in DOMAIN d.dict THEN d.dict[key] ELSE default
\* len(x) of a str, list or dict
LenOf(x) ==
    CASE TypeOf(x) = "dict" -> Cardinality(DOMAIN x.dict)
      [] TypeOf(x) = "str" -> Len(x.str)
      [] TypeOf(x) = "list" -> Len(x.list)
\* bool(x)
Truthy(x) ==
    CASE TypeOf(x) = "num" -> x.num # 0
      [] TypeOf(x) = "dict" -> DOMAIN x.dict # {}
      [] TypeOf(x) = "str" -> x.str # <<>>
      [] TypeOf(x) = "list" -> x.list # <<>>
\* the text of the session id generated n-th: "qs_" and, for its 12 random
\* characters, the number n
SessionIdText(n) == <<"q", "s", "_">> \o Decimal(n)

\* the characters of a subscription key
KeyText(k) ==
    IF k = "NASDAQ:AAPL" THEN <<"N", "A", "S", "D", "A", "Q", ":", "A", "A", "P", "L">>
    ELSE <<"N", "Y", "S", "E", ":", "T", "S", "L", "A">>
\* self._subscriptions.get(symbol_key) finds a callback
HasCallback(symbol_key) ==
    TypeOf(symbol_key) = "str" /\ \E k \in Range(subscriptions) : KeyText(k) = symbol_key.str

\* _handle_quote_update on the "p" of a decoded message: what it raises, "none" if
\* it returns, "callback" if it reaches the callback registered for the key
HandleQuoteUpdate(params) ==
    IF TypeOf(params) = "num" THEN "TypeError"                       \* len(params)
    ELSE IF LenOf(params) < 2 THEN "none"
    ELSE IF TypeOf(params) = "dict" THEN "KeyError"                  \* params[0]
    ELSE IF TypeOf(params) = "str" \/ params.list[1] # JStr(SessionIdText(session_id))
    THEN "none"
    ELSE LET quote_data == params.list[2]
         IN  IF TypeOf(quote_data) # "dict" THEN "AttributeError"    \* quote_data.get
             ELSE LET symbol_key == JGet(quote_data, <<"n">>, JStr(<<>>))
                      values == JGet(quote_data, <<"v">>, JDict(EmptyDict))
                  IN  IF ~Truthy(symbol_key) \/ ~Truthy(values) THEN "none"
                      ELSE IF TypeOf(values) # "dict" THEN "AttributeError"   \* values.get
                      ELSE IF TypeOf(symbol_key) \in {"list", "dict"} THEN "TypeError"
                      ELSE IF HasCallback(symbol_key) THEN "callback"
                      ELSE "none"
\* _handle_message: message.get raises AttributeError on anything but a dict
HandleMessage(message) ==
    IF TypeOf(message) # "dict" THEN "AttributeError"
    ELSE IF JGet(message, <<"m">>, JStr(<<>>)) = JStr(<<"q", "s", "d">>)
         THEN HandleQuoteUpdate(JGet(message, <<"p">>, JList(<<>>)))
         ELSE "none"

\* for message in _parse_messages(data_str): await self._handle_message(message),
\* up to the first message whose handling raises
RECURSIVE DispatchRaw(_, _)
DispatchRaw(messages, done) ==
    IF messages = <<>> THEN [raised |-> "none", dispatched |-> done]
    ELSE Only({IF raised \in {"none", "callback"}
               THEN DispatchRaw(Tail(messages), Append(done, Head(messages)))
               ELSE [raised |-> raised, dispatched |-> Append(done, Head(messages))]
                 : raised \in {HandleMessage(Head(messages))}})

\* re.search(r"~h~(\d+)", s): where the leftmost match starts, 0 if there is none
HeartbeatAt(s) ==
    LET at == {i \in 1..Len(s) : StartsWithAt(s, i, HeartbeatMark) /\ DigitsEnd(s, i + 3) > i + 3}
    IN  IF at = {} THEN 0 ELSE CHOOSE i \in at : \A j \in at : i <= j
\* run_forever, lines 235-239: the frames sent in answer to the heartbeat of a
\* chunk, while _ws is w: one frame, for the first ~h~<n> the chunk holds
EchoFirst(s, w) ==
    IF w # 0 /\ HeartbeatAt(s) # 0
    THEN <<Framed(SubSeq(s, HeartbeatAt(s), DigitsEnd(s, HeartbeatAt(s) + 3) - 1))>>
    ELSE <<>>

\* the body of the async-for on one chunk: echo, decode, dispatch
RecvBody(data_str, room) ==
    Only({Only({[echoed |-> EchoFirst(data_str, ws),
                 messages |-> parsed.messages,
                 raised |-> IF parsed.raised # "none" THEN parsed.raised
                            ELSE handled.raised,
                 dispatched |-> handled.dispatched]
                  : handled \in {DispatchRaw(parsed.messages, <<>>)}})
            : parsed \in {ParseMessages(data_str, room)}})

\* ------------------------------------------------------------ the aggregator
\* None in a price or volume field; no price or volume of a tick is negative
None == 0 - 1

\* a datetime: seconds since 1970-01-01 00:00 on its own clock, and whether it
\* carries a tzinfo ("utc") or not ("naive")
Naive(s) == [s |-> s, tz |-> "naive"]
Aware(s) == [s |-> s, tz |-> "utc"]
\* comparing or subtracting an offset-naive and an offset-aware datetime raises TypeError
Mixed(a, b) == a.tz # b.tz

\* INTERVAL_SECONDS of bar_manager.py
SupportedIntervals == {"1m", "3m", "5m", "15m", "30m", "45m", "1h", "2h", "3h", "4h", "1d"}
IntervalSeconds(i) ==
    CASE i = "1m" -> 60 [] i = "3m" -> 180 [] i = "5m" -> 300 [] i = "15m" -> 900
      [] i = "30m" -> 1800 [] i = "45m" -> 2700 [] i = "1h" -> 3600 [] i = "2h" -> 7200
      [] i = "3h" -> 10800 [] i = "4h" -> 14400 [] i = "1d" -> 86400
\* INTERVAL_SECONDS of domain/shared/value_objects.py
DomainIntervals == SupportedIntervals \cup {"1w", "1M"}
DomainIntervalSeconds(i) ==
    CASE i = "1w" -> 604800 [] i = "1M" -> 2592000 [] OTHER -> IntervalSeconds(i)
\* BarManager.__init__: the intervals of a BarManager() in the order add_tick takes them
DefaultIntervals == <<"1m", "5m", "1h", "1d">>

\* timestamp - datetime(1970, 1, 1) raises TypeError for an aware timestamp
GetBarStartRaises(ts, i) == i # "1d" /\ Mixed(ts, Naive(0))
\* a bar start rounded up to the end of the tick's window
GetBarStartCeil(ts, i) ==
    [ts EXCEPT !.s = ((ts.s \div IntervalSeconds(i)) + 1) * IntervalSeconds(i)]
\* _get_bar_start: replace(hour=0, minute=0, second=0, microsecond=0) for 1d,
\* else epoch + (total_seconds // seconds) * seconds
GetBarStart(ts, i) ==
    IF i = "1d"
    THEN [ts EXCEPT !.s = @ - (@ % 86400)]
    ELSE Naive((ts.s \div IntervalSeconds(i)) * IntervalSeconds(i))
\* get_bar_start of the domain service: the same statements over its own table
DomainGetBarStart(ts, i) ==
    IF i = "1d"
    THEN [ts EXCEPT !.s = @ - (@ % 86400)]
    ELSE Naive((ts.s \div DomainIntervalSeconds(i)) * DomainIntervalSeconds(i))

\* QuoteTick
QuoteTick(key, ts, price, volume) ==
    [key |-> key, ts |-> ts, price |-> price, volume |-> volume]

\* no tick: the argument of a call that takes none
NoTick == QuoteTick(NoKey, Naive(0), None, None)

\* BarBuilder.__init__
BarBuilder(key, i, bar_start) ==
    [key |-> key, interval |-> i, bar_start |-> bar_start,
     bar_end |-> [bar_start EXCEPT !.s = @ + IntervalSeconds(i)],
     open |-> None, high |-> None, low |-> None, close |-> None,
     volume |-> 0, tick_count |-> 0]

\* an add_tick that takes every tick, whatever its timestamp
RejectsNothing(b, ts) == FALSE
\* an add_tick that takes a tick stamped exactly bar_end
RejectsOpenEnd(b, ts) == ts.s < b.bar_start.s \/ ts.s > b.bar_end.s
\* BarBuilder.add_tick: timestamp < bar_start or timestamp >= bar_end
Rejects(b, ts) == ts.s < b.bar_start.s \/ ts.s >= b.bar_end.s

\* an add_tick whose close is the tick's volume
UpdateCloseFromVolume(b, price, volume) == [b EXCEPT !.close = volume]
\* BarBuilder.add_tick: self.close = tick.price
UpdateClose(b, price, volume) == [b EXCEPT !.close = price]

\* a high that keeps the first price
KeepFirstHigh(high, price) == IF high = None THEN price ELSE high
\* BarBuilder.add_tick: if self.high is None or tick.price > self.high
UpdateHigh(high, price) == IF high = None \/ price > high THEN price ELSE high

\* BarBuilder.add_tick of bar_manager.py: the builder after the call
BarBuilderAddTick(b, tick) ==
    IF Rejects(b, tick.ts) THEN b
    ELSE UpdateClose([b EXCEPT
            !.open = IF @ = None THEN tick.price ELSE @,
            !.high = UpdateHigh(@, tick.price),
            !.low = IF @ = None \/ tick.price < @ THEN tick.price ELSE @,
            !.volume = IF tick.volume # None /\ tick.volume # 0 THEN @ + tick.volume ELSE @,
            !.tick_count = @ + 1], tick.price, tick.volume)
\* BarBuilder.add_tick of the domain service: `if volume is not None`
DomainAddTick(b, price, volume, ts) ==
    IF Rejects(b, ts) THEN b
    ELSE UpdateClose([b EXCEPT
            !.open = IF @ = None THEN price ELSE @,
            !.high = UpdateHigh(@, price),
            !.low = IF @ = None \/ price < @ THEN price ELSE @,
            !.volume = IF volume # None THEN @ + volume ELSE @,
            !.tick_count = @ + 1], price, volume)

\* BarBuilder of the domain service: __post_init__ sets bar_end from its own table
DomainBarBuilder(key, i, bar_start) ==
    [key |-> key, interval |-> i, bar_start |-> bar_start,
     bar_end |-> [bar_start EXCEPT !.s = @ + DomainIntervalSeconds(i)],
     open |-> None, high |-> None, low |-> None, close |-> None,
     volume |-> 0, tick_count |-> 0]

\* BarBuilder.add_tick: what the call returns
AddTickReturns(b, ts) == ~Rejects(b, ts)

\* BarBuilder.is_complete, is_empty
IsComplete(b, current_time) == current_time.s >= b.bar_end.s
IsEmpty(b) == b.tick_count = 0
\* to_aggregated_bar: the AggregatedBar of a builder that is not empty
ToAggregatedBar(b) ==
    [key |-> b.key, interval |-> b.interval, bar_start |-> b.bar_start,
     bar_end |-> b.bar_end, open |-> b.open, high |-> b.high, low |-> b.low,
     close |-> b.close, volume |-> b.volume, tick_count |-> b.tick_count]
\* to_cache_dict: what _cache_current_bar publishes under the key of (key, interval)
ToCacheDict(b) ==
    [key |-> b.key, interval |-> b.interval, bar_start |-> b.bar_start,
     bar_end |-> b.bar_end, open |-> b.open, high |-> b.high, low |-> b.low,
     close |-> b.close, volume |-> b.volume, tick_count |-> b.tick_count]
\* OHLCV(...).to_mongo() once created_at is popped from it: the document of $set,
\* dated with the bar's start
ToMongo(agg) ==
    [key |-> agg.key, interval |-> agg.interval, datetime |-> agg.bar_start,
     open |-> agg.open, high |-> agg.high, low |-> agg.low, close |-> agg.close,
     volume |-> agg.volume]

\* a row of the ohlcv collection: the fields of $set and created_at
Row(doc, created_at) ==
    [key |-> doc.key, interval |-> doc.interval, datetime |-> doc.datetime,
     open |-> doc.open, high |-> doc.high, low |-> doc.low, close |-> doc.close,
     volume |-> doc.volume, created_at |-> created_at]
\* the rows without their created_at
Docs(coll) ==
    {[key |-> d.key, interval |-> d.interval, datetime |-> d.datetime,
      open |-> d.open, high |-> d.high, low |-> d.low, close |-> d.close,
      volume |-> d.volume] : d \in coll}

\* the filter of update_one: (symbol, exchange, interval, datetime)
SameBarKey(d, e) ==
    d.key = e.key /\ d.interval = e.interval /\ d.datetime = e.datetime
\* the rows the filter matches
Matching(coll, doc) == {d \in coll : SameBarKey(d, doc)}
\* a write that inserts a row whether or not the filter matches one
InsertAlways(coll, doc, created_at) == coll \cup {Row(doc, created_at)}
\* update_one(filter, {$set: doc, $setOnInsert: {created_at}}, upsert=True): the
\* matched row takes the fields of doc and keeps its created_at; with no match a
\* row is inserted with the created_at given
Upsert(coll, doc, created_at) ==
    IF Matching(coll, doc) = {}
    THEN coll \cup {Row(doc, created_at)}
    ELSE LET old == CHOOSE d \in Matching(coll, doc) : TRUE
         IN  (coll \ {old}) \cup {Row(doc, old.created_at)}

\* dt.utcnow(), the default of OHLCV.created_at: the clock, which advances with
\* every call made on the BarManager
UtcNow == agg_calls + 1

\* the BarManager and its collaborators while one call runs: the builder map, the
\* ohlcv collection, and what the call has upserted and published so far
AggState(b, st) == [bars |-> b, storage |-> st, upserted |-> {}, published |-> <<>>,
                    raised |-> FALSE, saved_count |-> 0, now |-> UtcNow,
                    replaced |-> {}]

\* _save_completed_bar
SaveCompletedBar(a, b) ==
    IF IsEmpty(b) THEN a
    ELSE [a EXCEPT !.storage = Upsert(@, ToMongo(ToAggregatedBar(b)), a.now),
                   !.upserted = @ \cup {ToAggregatedBar(b)},
                   !.replaced = @ \cup Matching(a.storage, ToMongo(ToAggregatedBar(b)))]

\* self._bars[symbol_key] on the defaultdict: the entry, created if missing
Entry(b, key) == IF key \in DOMAIN b THEN b[key] ELSE EmptyDict

\* _process_tick_for_interval
ProcessTickForInterval(a, tick, i) ==
    LET entry == Entry(a.bars, tick.key)
        withEntry == [a EXCEPT !.bars = DictPut(@, tick.key, entry)]
    IN  IF GetBarStartRaises(tick.ts, i) \/ (i \in DOMAIN entry /\ Mixed(entry[i].bar_start, tick.ts))
        THEN [withEntry EXCEPT !.raised = TRUE]
        ELSE LET bar_start == GetBarStart(tick.ts, i)
                 rolled == i \in DOMAIN entry /\ IsComplete(entry[i], tick.ts)
                 a1 == IF rolled THEN SaveCompletedBar(withEntry, entry[i]) ELSE withEntry
                 current_bar == IF i \notin DOMAIN entry \/ rolled
                                THEN BarBuilder(tick.key, i, bar_start)
                                ELSE entry[i]
                 after == BarBuilderAddTick(current_bar, tick)
             IN  [a1 EXCEPT !.bars = DictPut(@, tick.key, DictPut(entry, i, after)),
                            !.published = Append(@, ToCacheDict(after))]

\* BarManager.add_tick: the intervals in order, up to the first that raises
RECURSIVE AddTickFrom(_, _, _)
AddTickFrom(a, tick, n) ==
    IF n > Len(DefaultIntervals) \/ a.raised THEN a
    ELSE AddTickFrom(ProcessTickForInterval(a, tick, DefaultIntervals[n]), tick, n + 1)
BarManagerAddTick(a, tick) == AddTickFrom(a, tick, 1)

\* the builders of the map
Builders(b) == UNION {{b[k][i] : i \in DOMAIN b[k]} : k \in DOMAIN b}

\* the elements of a set one after the other
RECURSIVE AsSeq(_)
AsSeq(S) ==
    IF S = {} THEN <<>>
    ELSE Only({<<x>> \o AsSeq(S \ {x}) : x \in {CHOOSE y \in S : TRUE}})
\* a dict keeps its keys in the order they were inserted, and assigning to a key
\* it holds keeps the key's place. The order of _bars after a step that left the
\* map as b: self._bars[symbol_key] appends a key the map did not hold (line 160;
\* one call touches one key), self._bars[symbol_key][interval] = current_bar
\* appends an interval the key did not hold (lines 170, 181; add_tick takes the
\* intervals in the order of self._intervals), and clear() empties the map
Inserted(order, b) ==
    IF b = EmptyDict THEN <<>>
    ELSE [n \in 1..Len(order) |->
             [key |-> order[n].key,
              intervals |-> order[n].intervals
                  \o SelectSeq(DefaultIntervals,
                               LAMBDA i : /\ i \in DOMAIN b[order[n].key]
                                          /\ i \notin Range(order[n].intervals))]]
         \o Only({[n \in 1..Len(new) |->
                     [key |-> new[n],
                      intervals |-> SelectSeq(DefaultIntervals,
                                              LAMBDA i : i \in DOMAIN b[new[n]])]]
                    : new \in {AsSeq(DOMAIN b \ {e.key : e \in Range(order)})}})
\* for symbol_key, intervals in self._bars.items(): for interval, bar in
\* intervals.items(): the builders in the order the two loops reach them
RECURSIVE BarsItems(_, _)
BarsItems(b, order) ==
    IF order = <<>> THEN <<>>
    ELSE [n \in 1..Len(Head(order).intervals) |-> b[Head(order).key][Head(order).intervals[n]]]
             \o BarsItems(b, Tail(order))

\* flush_all_bars: save every non-empty builder in that order, count it, clear
\* the map
RECURSIVE SaveAll(_, _)
SaveAll(a, todo) ==
    IF todo = <<>> THEN a
    ELSE SaveAll(IF IsEmpty(Head(todo)) THEN a
                 ELSE [SaveCompletedBar(a, Head(todo)) EXCEPT !.saved_count = @ + 1],
                 Tail(todo))
FlushAllBars(a) == [SaveAll(a, BarsItems(a.bars, bars_order)) EXCEPT !.bars = EmptyDict]

\* ------------------------------------------- the aggregator, await by await
\* an acquire that takes the lock whoever holds it
LockIgnored(p) == TRUE
\* asyncio.Lock.acquire takes the lock without suspending only if it is unlocked
\* and no task waits for it
LockFree(p) == lock = 0 /\ lock_waiters = <<>>

\* a task that has no call in progress, awaiting no I/O call
NoIo == [call |-> "none", bar |-> BarBuilder(NoKey, "1m", Naive(0)), now |-> 0]
NoTask == [op |-> "none", pc |-> "idle", tick |-> NoTick, n |-> 0, io |-> NoIo,
           todo |-> <<>>, saved_count |-> 0, raised |-> FALSE]
\* a caller that makes one call at a time and awaits it (the direct caller, the
\* Stop handler) is the first task
Caller == CHOOSE p \in 1..MaxTasks : \A q \in 1..MaxTasks : p <= q
\* what is recorded of a direct caller's call while it runs: the map it found,
\* the bars it has upserted, the rows they replaced, the values it has published;
\* and the bars the calls before it have upserted, and how many awaited I/O
\* calls have raised so far
NoTrace == [before |-> EmptyDict, upserted |-> {}, replaced |-> {}, published |-> <<>>,
            delivered |-> {}, raises |-> 0]
\* what a task has done when it next suspends or returns: the map, the
\* collection, the task, and whether `async with` has released the lock
Ran(b, st, t, release) == [bars |-> b, storage |-> st, task |-> t, release |-> release]
\* the call returns, or raises
Ends(t, raised) == [t EXCEPT !.pc = "idle", !.io = NoIo, !.raised = raised]
\* the task suspends in an awaited I/O call
Awaits(t, where, call, bar, now) ==
    [t EXCEPT !.pc = where, !.io = [call |-> call, bar |-> bar, now |-> now]]

\* _process_tick_for_interval from the new builder on: current_bar.add_tick(tick),
\* then _cache_current_bar up to its await Cache.set
AddTickFeed(b, st, t, fresh) ==
    LET i == DefaultIntervals[t.n]
        entry == Entry(b, t.tick.key)
        current_bar == IF fresh THEN BarBuilder(t.tick.key, i, GetBarStart(t.tick.ts, i))
                       ELSE entry[i]
        after == BarBuilderAddTick(current_bar, t.tick)
    IN  Ran(DictPut(b, t.tick.key, DictPut(entry, i, after)), st,
            Awaits(t, "cache", "Cache.set", after, 0), FALSE)

\* a rollover that replaces the completed builder and saves nothing
RollSkipsSave(b, st, t, bar) == AddTickFeed(b, st, t, TRUE)
\* _process_tick_for_interval: the completed builder is saved first, and the task
\* suspends in update_one (line 214)
RollAwaitsSave(b, st, t, bar) ==
    Ran(b, st, Awaits(t, "save", "update_one", bar, UtcNow), FALSE)

\* add_tick inside the lock, from the top of its loop at interval t.n: to the await
\* of update_one for a completed builder that is not empty, else to the await of
\* Cache.set; past the last interval, or when _get_bar_start or is_complete
\* raises, the call ends and the lock is released
AddTickInterval(b, st, t) ==
    IF t.n > Len(DefaultIntervals) THEN Ran(b, st, Ends(t, FALSE), TRUE)
    ELSE LET i == DefaultIntervals[t.n]
             entry == Entry(b, t.tick.key)
             withEntry == DictPut(b, t.tick.key, entry)
         IN  IF GetBarStartRaises(t.tick.ts, i)
                    \/ (i \in DOMAIN entry /\ Mixed(entry[i].bar_start, t.tick.ts))
             THEN Ran(withEntry, st, Ends(t, TRUE), TRUE)
             ELSE IF i \in DOMAIN entry /\ IsComplete(entry[i], t.tick.ts)
                        /\ ~IsEmpty(entry[i])
             THEN RollAwaitsSave(withEntry, st, t, entry[i])
             ELSE AddTickFeed(withEntry, st, t,
                              i \notin DOMAIN entry \/ IsComplete(entry[i], t.tick.ts))

\* a flush that ends with the builders still in the map
FlushKeepsMap(b, st, t) == Ran(b, st, Ends(t, FALSE), TRUE)
\* flush_all_bars, line 267: self._bars.clear(); the lock is released and the
\* call returns
FlushClears(b, st, t) == Ran(EmptyDict, st, Ends(t, FALSE), TRUE)

\* flush_all_bars inside the lock: to the await of update_one for the next builder
\* that is not empty, in the order of the map; with none left the map is cleared
\* and the lock released
FlushNextBar(b, st, t) ==
    IF t.todo = <<>> THEN FlushClears(b, st, t)
    ELSE Ran(b, st, Awaits([t EXCEPT !.todo = Tail(@)], "fsave", "update_one",
                           Head(t.todo), UtcNow), FALSE)
\* the builders flush_all_bars will save, in the order its loops reach them
FlushTodo(b) == SelectSeq(BarsItems(b, bars_order), LAMBDA x : ~IsEmpty(x))

\* str.upper() on the symbols and exchanges callers pass
Upper(k) == IF k = "nasdaq:aapl" THEN "NASDAQ:AAPL" ELSE k
\* CACHE_KEY_BAR_CURRENT.format(exchange, symbol, interval)
CacheKeyBarCurrent(key, i) == <<key, i>>
\* a read key made of the exchange and the symbol in the caller's case
CacheKeyAsGiven(key, i) == CacheKeyBarCurrent(key, i)
\* get_current_bar's cache_key: exchange.upper(), symbol.upper()
CacheKey(key, i) == CacheKeyBarCurrent(Upper(key), i)
\* _cache_current_bar: Cache.set(cache_key, bar.to_cache_dict()) under the
\* symbol_key add_tick upper-cased
CacheSet(cache, bar) ==
    DictPut(cache, CacheKeyBarCurrent(bar.key, bar.interval), ToCacheDict(bar))
\* no get_current_bar call
NoRead == [key |-> NoKey, interval |-> "1m", found |-> FALSE,
           value |-> ToCacheDict(NoIo.bar), at |-> 0]
\* get_current_bar: Cache.get(cache_key), None on a miss; `at` is the time of the call
CacheGet(cache, key, i) ==
    IF CacheKey(key, i) \in DOMAIN cache
    THEN [key |-> key, interval |-> i, found |-> TRUE, value |-> cache[CacheKey(key, i)],
          at |-> UtcNow]
    ELSE [key |-> key, interval |-> i, found |-> FALSE, value |-> NoRead.value,
          at |-> UtcNow]

\* the task enters the lock's body
EnterLock(b, st, t) ==
    IF t.op = "add_tick" THEN AddTickInterval(b, st, [t EXCEPT !.n = 1])
    ELSE FlushNextBar(b, st, [t EXCEPT !.todo = FlushTodo(b)])
\* a failed save that would drop the builders all the same
SaveRaisedCleared(b, st, t) == Ran(EmptyDict, st, Ends(t, TRUE), TRUE)
\* update_one raised: the exception leaves _save_completed_bar, the loop and
\* `async with`, which releases the lock; the call raises with the map as it was
\* and no document written
SaveRaised(b, st, t) == Ran(b, st, Ends(t, TRUE), TRUE)
\* Cache.set raised: _cache_current_bar catches nothing (lines 234-244), the
\* exception leaves the loop over the intervals and `async with`, which releases
\* the lock; the builder keeps the tick it was fed, nothing is published for it
\* and the intervals that follow are not reached
CacheRaised(b, st, t) == Ran(b, st, Ends(t, TRUE), TRUE)
\* update_one returned: the document is in the collection
Saved(st, io) == Upsert(st, ToMongo(ToAggregatedBar(io.bar)), io.now)

\* ------------------------------------------------------ run_forever's state
\* the variables a step of run_forever may change, as one record
NoRecon == [t |-> 0, sid |-> 0, keys |-> {}, was |-> 0]
RfState == [ws |-> ws, pc |-> pc["rf"], iter |-> rf_iter, resub |-> rf_resub,
            chunk |-> rf_chunk, sent |-> sent, delay |-> reconnect_delay,
            streak |-> streak, fails |-> conn_fails, dropped |-> FALSE,
            cache |-> quote_cache, bars |-> bars, recon |-> recon]

\* both except clauses of run_forever: clear the connection, sleep if still running
RfExcept(s) ==
    IF running
    THEN [s EXCEPT !.ws = 0, !.pc = "sleep", !.recon = NoRecon,
                   !.streak = Min(s.streak + 1, MaxStreak)]
    ELSE [s EXCEPT !.ws = 0, !.pc = "done", !.recon = NoRecon]

\* async for raw_data in self._ws
RfEnter(s) ==
    IF s.ws = 0 THEN RfExcept(s) ELSE [s EXCEPT !.iter = s.ws, !.pc = "recv"]

\* the async-for ended on a transport that is closed and still installed: the loop
\* enters the async-for on it again, which ends again at once ("spin")
RfReenter(s) ==
    IF s.ws = s.iter THEN [s EXCEPT !.pc = "spin"] ELSE RfEnter(s)

\* while self._running: try: if self._ws is None: connect() ... async for
RfLoop(s, run) ==
    IF ~run THEN [s EXCEPT !.pc = "done"]
    ELSE IF s.ws = 0 THEN [s EXCEPT !.pc = "opening"]
    ELSE RfEnter(s)

\* the resubscription loop over the snapshot of the keys, from `left` on
RfResub(s, left) ==
    IF left = <<>> THEN RfEnter(s)
    ELSE IF CanSend
         THEN [s EXCEPT !.sent = Append(@, Frame(ws, "quote_add_symbols",
                                         AddSymbolsParams, Head(left), sid_gen)),
                        !.resub = Tail(left), !.pc = "resub"]
         ELSE RfExcept(s)

\* the run_forever task, in the queue of the BarManager's lock
RfWaiter == MaxTasks + 1
\* BarManager.add_tick for a tick of the live feed. The tick's timestamp is
\* datetime.now(UTC), timezone-aware: _process_tick_for_interval creates the
\* symbol's entry in the defaultdict (line 160) and _get_bar_start then raises
\* TypeError on `timestamp - epoch` (line 126) for the first interval, 1m.
LiveAddTick(b, key) ==
    BarManagerAddTick(AggState(b, {}), QuoteTick(key, Aware(0), 0, None)).bars

\* for message in _parse_messages(data_str): await self._handle_message(message)
RfDispatch(s, msgs) ==
    LET rest == DropHandled(msgs)
        done == SubSeq(msgs, 1, Len(msgs) - Len(rest))
        s1 == [s EXCEPT !.dropped = \E i \in 1..Len(done) : OnlySessionDiffers(done[i])]
    IN  IF rest = <<>>
        THEN [s1 EXCEPT !.chunk = <<>>, !.pc = "recv"]
        ELSE [s1 EXCEPT !.chunk = rest, !.pc = "cb_cache"]

\* a callback error that reaches run_forever's except clause
CallbackEscapes(s, rest) == RfExcept(s)
\* _handle_quote_update: the callback raised inside try/except Exception: the
\* error is logged, _handle_message returns and the for loop takes the next message
CallbackFailed(s, rest) == RfDispatch(s, rest)

RfApply(s) ==
    /\ ws' = s.ws
    /\ pc' = [pc EXCEPT !["rf"] = s.pc]
    /\ rf_iter' = s.iter
    /\ rf_resub' = s.resub
    /\ rf_chunk' = s.chunk
    /\ sent' = s.sent
    /\ reconnect_delay' = s.delay
    /\ streak' = s.streak
    /\ conn_fails' = s.fails
    /\ quote_cache' = s.cache
    /\ bars' = s.bars
    /\ bars_order' = Inserted(bars_order, s.bars)
    /\ recon' = s.recon
    /\ stale_dropped' = s.dropped

RfAlive == pc["rf"] \notin {"idle", "done", "cancelled"}
\* a step of the run_forever task is its own only while no cancellation is pending
RfAt(where) == pc["rf"] = where /\ ~rf_cancel


\* -------------------------------------------------------------------- Init
\* no UnsubscribeCommand was handled
NoUnsub == [pc |-> "idle", key |-> NoKey, res |-> "none"]
\* no _upsert_many is in progress
\* no subscribe / unsubscribe call is suspended
NoApi == [pc |-> "idle", op |-> "none", key |-> NoKey]
NoSync == [pc |-> "idle", records |-> {}, created_at |-> 0]
\* no command handler runs and no run_forever task was created by one
NoHandler == [op |-> "none", pc |-> "idle", res |-> "none", task |-> 0, flush |-> NoTask]
NoRfTask == [st |-> "none", cancel |-> FALSE, iter |-> 0]
InitCommands ==
    /\ handlers = [h \in 1..MaxHandlers |-> NoHandler]
    /\ cmd_count = 0
    /\ rf_tasks = [r \in 1..MaxCommands |-> NoRfTask]
    /\ ws_task_id = 0

InitProgram ==
    /\ ws = 0
    /\ session_id = 0
    /\ subscriptions = <<>>
    /\ running = FALSE
    /\ reconnect_delay = FloorDelay
    /\ tstate = [t \in Transports |-> "unused"]
    /\ sent = <<>>
    /\ sid_gen = 0
    /\ pc = [p \in Procs |-> "idle"]
    /\ rf_resub = <<>>
    /\ rf_chunk = <<>>
    /\ rf_iter = 0
    /\ rf_cancel = FALSE
    /\ state_running = FALSE
    /\ ws_task = FALSE
    /\ InitCommands
    /\ bars = EmptyDict /\ bars_order = <<>>
    /\ storage = {}
    /\ quote_cache = [k \in Keys |-> 0]
    /\ api_calls = 0
    /\ last_call = [op |-> "none", key |-> NoKey, res |-> "none"]
    /\ start_raised = FALSE
    /\ unsub = NoUnsub
    /\ sync = NoSync
    /\ api_run = NoApi
    /\ recon = NoRecon
    /\ streak = 0
    /\ conn_fails = 0
    /\ stale_dropped = FALSE

\* nothing has been called on the aggregator or on its parts
NoCall == [op |-> "none"]
NoAggCall == [op |-> "none", tick |-> NoTick, raised |-> FALSE, upserted |-> {},
              published |-> <<>>, ret |-> 0, replaced |-> {}, before |-> EmptyDict,
              seq |-> 0]
InitDirect ==
    /\ agg_calls = 0 /\ agg_last = NoAggCall /\ agg_run = NoTrace
    /\ lock = 0 /\ lock_waiters = <<>> /\ tasks = [p \in 1..MaxTasks |-> NoTask]
    /\ bar_cache = EmptyDict /\ got = NoRead
InitUnits ==
    builder = NoCall /\ dbuilder = NoCall /\ fed = <<>> /\ probe = NoCall /\ codec = NoCall

Init == InitProgram /\ InitDirect /\ InitUnits

Returned(op, key, res) == last_call' = [op |-> op, key |-> key, res |-> res]

\* ------------------------------------------------ StartQuoteFeedHandler.handle
\* commands are issued one after the other: no Start while a Stop is in progress
StartCmd ==
    /\ pc["start"] = "idle" /\ pc["stop"] = "idle"
    /\ IF state_running
       THEN UNCHANGED pc   \* "already_running"
       ELSE /\ ~RfAlive
            /\ pc' = [pc EXCEPT !["start"] = "opening"]
    /\ UNCHANGED <<provider, network, rfLocals, rf_cancel, feed, aggregator,
                   callers, direct, units, history>>

\* connect(): websockets.connect returned a transport; the session id is generated
\* and quote_create_session is sent
StartOpenOK ==
    /\ pc["start"] = "opening"
    /\ \E t \in Transports : tstate[t] = "unused"
    /\ LET t == NextTransport
           sid == GenerateSessionId
       IN  /\ ws' = t
           /\ tstate' = [tstate EXCEPT ![t] = "open"]
           /\ session_id' = sid
           /\ sid_gen' = sid_gen + 1
           /\ sent' = Append(sent, Frame(t, "quote_create_session",
                                         CreateSessionParams(sid), NoKey, sid_gen + 1))
    /\ pc' = [pc EXCEPT !["start"] = "conn1"]
    /\ UNCHANGED <<subscriptions, running, reconnect_delay, rfLocals, rf_cancel, feed,
                   aggregator, callers, direct, units, history>>

\* connect(): websockets.connect raised; the exception reaches the caller of Start
StartOpenFail ==
    /\ pc["start"] = "opening"
    /\ pc' = [pc EXCEPT !["start"] = "idle"]
    /\ start_raised' = TRUE
    /\ UNCHANGED <<provider, network, rfLocals, rf_cancel, feed, aggregator,
                   api_calls, last_call, api_run, unsub, sync, direct, units, history>>

\* connect(): quote_set_fields
StartSetFields ==
    /\ pc["start"] = "conn1"
    /\ IF CanSend
       THEN /\ sent' = Append(sent, Frame(ws, "quote_set_fields", SetFieldsParams,
                                          NoKey, sid_gen))
            /\ pc' = [pc EXCEPT !["start"] = "conn2"]
            /\ UNCHANGED start_raised
       ELSE /\ pc' = [pc EXCEPT !["start"] = "idle"]   \* the caller of Start gets SendError
            /\ start_raised' = TRUE
            /\ UNCHANGED sent
    /\ UNCHANGED <<provider, tstate, sid_gen, rfLocals, rf_cancel, feed, aggregator,
                   api_calls, last_call, api_run, unsub, sync, direct, units, history>>

\* connect() resets the delay and returns; state.running = True; create_task(run_forever())
StartReturn ==
    /\ pc["start"] = "conn2"
    /\ reconnect_delay' = ResetDelay(reconnect_delay)
    /\ state_running' = TRUE
    /\ ws_task' = TRUE
    /\ start_raised' = FALSE
    /\ pc' = [pc EXCEPT !["start"] = "idle", !["rf"] = "start"]
    /\ rf_cancel' = FALSE
    /\ rf_resub' = <<>> /\ rf_chunk' = <<>> /\ rf_iter' = 0
    /\ streak' = 0 /\ conn_fails' = 0 /\ recon' = NoRecon /\ stale_dropped' = FALSE
    /\ UNCHANGED <<ws, session_id, subscriptions, running, network, aggregator,
                   api_calls, last_call, api_run, unsub, sync, direct, units, commands>>

\* ------------------------------------------------------------- run_forever
\* the task's first step: self._running = True, then the loop
RfBegin ==
    /\ RfAt("start")
    /\ running' = TRUE
    /\ RfApply(RfLoop(RfState, TRUE))
    /\ UNCHANGED <<session_id, subscriptions, tstate, sid_gen, rf_cancel, feed,
                   storage, callers, direct, units>>

RfOpenOK ==
    /\ RfAt("opening")
    /\ \E t \in Transports : tstate[t] = "unused"
    /\ LET t == NextTransport
           sid == GenerateSessionId
       IN  /\ tstate' = [tstate EXCEPT ![t] = "open"]
           /\ session_id' = sid
           /\ sid_gen' = sid_gen + 1
           /\ RfApply([RfState EXCEPT
                  !.ws = t, !.pc = "conn1",
                  !.sent = Append(@, Frame(t, "quote_create_session",
                                           CreateSessionParams(sid), NoKey, sid_gen + 1))])
    /\ UNCHANGED <<subscriptions, running, rf_cancel, feed, storage, callers, direct, units>>

\* websockets.connect raised inside run_forever
RfOpenFail ==
    /\ RfAt("opening")
    /\ RfApply(RfExcept([RfState EXCEPT !.fails = Min(@ + 1, MaxStreak)]))
    /\ UNCHANGED <<session_id, subscriptions, running, tstate, sid_gen, rf_cancel,
                   feed, storage, callers, direct, units>>

RfSetFields ==
    /\ RfAt("conn1")
    /\ RfApply(IF CanSend
               THEN [RfState EXCEPT !.pc = "conn2",
                        !.sent = Append(@, Frame(ws, "quote_set_fields", SetFieldsParams,
                                                 NoKey, sid_gen))]
               ELSE RfExcept([RfState EXCEPT !.fails = Min(@ + 1, MaxStreak)]))
    /\ UNCHANGED <<session_id, subscriptions, running, tstate, sid_gen, rf_cancel,
                   feed, storage, callers, direct, units>>

\* connect() resets the delay and returns; the resubscription loop starts on a
\* snapshot of the keys
RfConnected ==
    /\ RfAt("conn2")
    /\ RfApply(RfResub([RfState EXCEPT
                  !.delay = ResetDelay(@), !.streak = 0, !.fails = 0,
                  !.recon = [t |-> ws, sid |-> session_id,
                             keys |-> Range(subscriptions), was |-> reconnect_delay]],
               ResubKeys(subscriptions)))
    /\ UNCHANGED <<session_id, subscriptions, running, tstate, sid_gen, rf_cancel,
                   feed, storage, callers, direct, units>>

RfResubNext ==
    /\ RfAt("resub")
    /\ RfApply(RfResub(RfState, rf_resub))
    /\ UNCHANGED <<session_id, subscriptions, running, tstate, sid_gen, rf_cancel,
                   feed, storage, callers, direct, units>>

\* a chunk arrives: break if no longer running, else dispatch its messages
RfRecvChunk ==
    /\ RfAt("recv")
    /\ tstate[rf_iter] = "open"
    /\ \E c \in Chunks :
          RfApply(IF ~running THEN RfLoop(RfState, running) ELSE RfDispatch(RfState, c))
    /\ UNCHANGED <<session_id, subscriptions, running, tstate, sid_gen, rf_cancel,
                   feed, storage, callers, direct, units>>

\* recv() raises ConnectionClosedError: the transport was closed abnormally
RfRecvError ==
    /\ RfAt("recv")
    /\ tstate[rf_iter] = "closed_err"
    /\ RfApply(RfExcept(RfState))
    /\ UNCHANGED <<session_id, subscriptions, running, tstate, sid_gen, rf_cancel,
                   feed, storage, callers, direct, units>>

\* the transport was closed normally: the async iterator swallows ConnectionClosedOK
\* and the async-for simply ends
RfRecvEnd ==
    /\ RfAt("recv") \/ RfAt("spin")
    /\ tstate[rf_iter] = "closed_ok"
    /\ RfApply(IF ~running THEN [RfState EXCEPT !.pc = "done"]
               ELSE IF ws = 0 THEN [RfState EXCEPT !.pc = "opening"]
               ELSE RfReenter(RfState))
    /\ UNCHANGED <<session_id, subscriptions, running, tstate, sid_gen, rf_cancel,
                   feed, storage, callers, direct, units>>

\* on_quote_update: Cache.set has stored the quote and returned, the tick goes to
\* BarManager.add_tick, which takes the lock: if it is free the call runs on to
\* its TypeError, which is caught and logged by _handle_quote_update, then the
\* next message; if a flush_all_bars holds it the task is suspended in
\* acquire() ("cb_lock") and runs on from there once the lock is released
RfCacheDone ==
    /\ IF RfAt("cb_cache")
       THEN IF LockFree(RfWaiter)
            THEN /\ RfApply(CallbackFailed([RfState EXCEPT
                                  !.cache = [@ EXCEPT ![Head(rf_chunk).n] = Head(rf_chunk).lp],
                                  !.bars = LiveAddTick(@, Head(rf_chunk).n)],
                              Tail(rf_chunk)))
                 /\ UNCHANGED lock_waiters
            ELSE /\ RfApply([RfState EXCEPT
                                  !.cache = [@ EXCEPT ![Head(rf_chunk).n] = Head(rf_chunk).lp],
                                  !.pc = "cb_lock"])
                 /\ lock_waiters' = Append(lock_waiters, RfWaiter)
       ELSE /\ RfAt("cb_lock")
            /\ lock = 0 /\ Head(lock_waiters) = RfWaiter
            /\ lock_waiters' = Tail(lock_waiters)
            /\ RfApply(CallbackFailed([RfState EXCEPT
                                          !.bars = LiveAddTick(@, Head(rf_chunk).n)],
                                      Tail(rf_chunk)))
    /\ UNCHANGED <<session_id, subscriptions, running, tstate, sid_gen, rf_cancel,
                   feed, storage, callers, units, agg_calls, agg_run, agg_last, lock,
                   tasks, bar_cache, got>>

\* on_quote_update: Cache.set raised (caught and logged); then the next message
RfCacheFail ==
    /\ RfAt("cb_cache")
    /\ RfApply(CallbackFailed(RfState, Tail(rf_chunk)))
    /\ UNCHANGED <<session_id, subscriptions, running, tstate, sid_gen, rf_cancel,
                   feed, storage, callers, direct, units>>

\* asyncio.sleep(self._reconnect_delay) elapsed
RfSleepDone ==
    /\ RfAt("sleep")
    /\ RfApply(RfLoop([RfState EXCEPT !.delay = NextDelay(@)], running))
    /\ UNCHANGED <<session_id, subscriptions, running, tstate, sid_gen, rf_cancel,
                   feed, storage, callers, direct, units>>

\* CancelledError is thrown into the task at the await it is suspended in; no
\* except clause of run_forever or _handle_quote_update catches it
RfCancelled ==
    /\ rf_cancel /\ RfAlive
    /\ pc' = [pc EXCEPT !["rf"] = "cancelled"]
    /\ lock_waiters' = SelectSeq(lock_waiters, LAMBDA w : w # RfWaiter)
    /\ UNCHANGED <<provider, network, rfLocals, rf_cancel, feed, aggregator, callers, units,
                   history, agg_calls, agg_run, agg_last, lock, tasks, bar_cache, got>>


\* ------------------------------------------------------------- the network
\* the peer or the network ends an open transport: with a normal close frame
\* ("closed_ok") or abnormally ("closed_err")
TransportClose ==
    /\ \E t \in Transports, how \in {"closed_ok", "closed_err"} :
          /\ tstate[t] = "open"
          /\ tstate' = [tstate EXCEPT ![t] = how]
    /\ UNCHANGED <<provider, sent, sid_gen, pc, rfLocals, rf_cancel, feed, aggregator,
                   callers, direct, units, history>>

\* ---------------------------------------------------- subscribe / unsubscribe
\* a subscribe / unsubscribe call is suspended in `await self._ws.send(message)`
\* (_send_message, line 112)
Awaiting(op, k) == [pc |-> "send", op |-> op, key |-> k]

\* provider.subscribe up to its await, called by a caller that awaits each call
\* before it makes the next: with no transport it raises; else the callback is
\* stored and the frame handed to send(), where the call is suspended; a send()
\* on a closed transport raises at once
Subscribe ==
    /\ api_run.pc = "idle"
    /\ api_calls < MaxApiCalls
    /\ api_calls' = api_calls + 1
    /\ \E k \in Keys :
          IF ws = 0
          THEN /\ Returned("subscribe", k, "RuntimeError")
               /\ UNCHANGED <<subscriptions, sent, api_run>>
          ELSE /\ subscriptions' = DictSet(subscriptions, k)
               /\ IF CanSend
                  THEN /\ sent' = Append(sent, Frame(ws, "quote_add_symbols",
                                                     AddSymbolsParams, k, sid_gen))
                       /\ api_run' = Awaiting("subscribe", k)
                       /\ UNCHANGED last_call
                  ELSE /\ Returned("subscribe", k, SendError)
                       /\ UNCHANGED <<sent, api_run>>
    /\ UNCHANGED <<ws, session_id, running, reconnect_delay, tstate, sid_gen, pc,
                   rfLocals, rf_cancel, feed, aggregator, history, direct, units,
                   start_raised, unsub, sync>>

\* ws.send returned: subscribe() returns the key
SubscribeReturns ==
    /\ api_run.pc = "send" /\ api_run.op \in {"subscribe", "SubscribeCommand"}
    /\ Returned(api_run.op, api_run.key, "ok")
    /\ api_run' = NoApi
    /\ UNCHANGED <<provider, network, pc, rfLocals, rf_cancel, feed, aggregator,
                   history, direct, units, api_calls, start_raised, unsub, sync>>

\* provider.unsubscribe up to its await: with no transport, or for a key that is
\* not subscribed, it returns at once; else the key is deleted and the frame
\* handed to send(), where the call is suspended; a send() on a closed transport
\* raises at once
Unsubscribe ==
    /\ api_run.pc = "idle"
    /\ api_calls < MaxApiCalls
    /\ api_calls' = api_calls + 1
    /\ \E k \in Keys :
          IF ws = 0 \/ k \notin Range(subscriptions)
          THEN /\ Returned("unsubscribe", k, "ok")
               /\ UNCHANGED <<subscriptions, sent, api_run>>
          ELSE /\ subscriptions' = DictDel(subscriptions, k)
               /\ IF CanSend
                  THEN /\ sent' = Append(sent, Frame(ws, "quote_remove_symbols",
                                                     RemoveSymbolsParams, k, sid_gen))
                       /\ api_run' = Awaiting("unsubscribe", k)
                       /\ UNCHANGED last_call
                  ELSE /\ Returned("unsubscribe", k, SendError)
                       /\ UNCHANGED <<sent, api_run>>
    /\ UNCHANGED <<ws, session_id, running, reconnect_delay, tstate, sid_gen, pc,
                   rfLocals, rf_cancel, feed, aggregator, history, direct, units,
                   start_raised, unsub, sync>>

\* ws.send returned: unsubscribe() returns
UnsubscribeReturns ==
    /\ api_run.pc = "send" /\ api_run.op = "unsubscribe"
    /\ Returned("unsubscribe", api_run.key, "ok")
    /\ api_run' = NoApi
    /\ UNCHANGED <<provider, network, pc, rfLocals, rf_cancel, feed, aggregator,
                   history, direct, units, api_calls, start_raised, unsub, sync>>

\* ------------------------------------------------------ SubscribeHandler.handle
\* the symbol and exchange a command carries, in either case
CommandKeys == {"NASDAQ:AAPL", "nasdaq:aapl", "NYSE:TSLA"}
\* handle() up to its await: ValueError unless the service runs and the
\* provider is connected; else symbol.upper(), exchange.upper() and
\* provider.subscribe with on_quote_update as the callback, which stores it and
\* is suspended in ws.send (no await lies between the guard and the send)
SubscribeCmd ==
    /\ api_run.pc = "idle"
    /\ api_calls < MaxApiCalls
    /\ api_calls' = api_calls + 1
    /\ \E given \in CommandKeys : \E k \in {Upper(given)} :
          IF ~(state_running /\ IsConnected)
          THEN /\ Returned("SubscribeCommand", k, "ValueError")
               /\ UNCHANGED <<subscriptions, sent, api_run>>
          ELSE /\ subscriptions' = DictSet(subscriptions, k)
               /\ sent' = Append(sent, Frame(ws, "quote_add_symbols",
                                             AddSymbolsParams, k, sid_gen))
               /\ api_run' = Awaiting("SubscribeCommand", k)
               /\ UNCHANGED last_call
    /\ UNCHANGED <<ws, session_id, running, reconnect_delay, tstate, sid_gen, pc,
                   rfLocals, rf_cancel, feed, aggregator, history, direct, units,
                   start_raised, unsub, sync>>

\* ---------------------------------------------------- UnsubscribeHandler.handle
\* provider.unsubscribe reaches _send_message: connected, and the key is subscribed
UnsubscribeSends(k) == ws # 0 /\ k \in Range(subscriptions)
\* symbol.upper(), exchange.upper(); provider.unsubscribe up to its await: with
\* no connection, or for a key that is not subscribed, it returns at once and
\* Cache.delete of the key's latest quote is called and awaited; else the key is
\* deleted from the map and the handler is suspended in `await self._ws.send`
\* (websocket.py 140-143, handler.py 190). A send that raises leaves the handler
\* before the cache is touched. One command at a time.
UnsubscribeCmd ==
    /\ unsub.pc = "idle"
    /\ api_calls < MaxApiCalls
    /\ api_calls' = api_calls + 1
    /\ \E given \in CommandKeys : \E k \in {Upper(given)} :
          /\ subscriptions' = IF UnsubscribeSends(k) THEN DictDel(subscriptions, k)
                               ELSE subscriptions
          /\ sent' = IF UnsubscribeSends(k) /\ CanSend
                      THEN Append(sent, Frame(ws, "quote_remove_symbols",
                                              RemoveSymbolsParams, k, sid_gen))
                      ELSE sent
          /\ unsub' = IF ~UnsubscribeSends(k)
                       THEN [pc |-> "delete", key |-> k, res |-> "none"]
                       ELSE IF CanSend
                       THEN [pc |-> "send", key |-> k, res |-> "none"]
                       ELSE [pc |-> "idle", key |-> k, res |-> SendError]
    /\ UNCHANGED <<ws, session_id, running, reconnect_delay, tstate, sid_gen, pc,
                   rfLocals, rf_cancel, feed, aggregator, history, direct, units,
                   last_call, api_run, start_raised, sync>>

\* ws.send returned: provider.unsubscribe returns, and Cache.delete of the key's
\* latest quote is called and awaited (handler.py 191-192)
UnsubscribeSent ==
    /\ unsub.pc = "send"
    /\ unsub' = [unsub EXCEPT !.pc = "delete"]
    /\ UNCHANGED <<provider, network, pc, rfLocals, rf_cancel, feed, aggregator,
                   history, direct, units, api_calls, last_call, api_run, start_raised, sync>>

\* Cache.delete returned: the key's latest quote is gone; the handler returns
UnsubscribeDeleted ==
    /\ unsub.pc = "delete"
    /\ quote_cache' = [quote_cache EXCEPT ![unsub.key] = 0]
    /\ unsub' = [unsub EXCEPT !.pc = "idle", !.res = "ok"]
    /\ UNCHANGED <<provider, network, pc, rfLocals, rf_cancel, feed, bar_map, storage,
                   history, direct, units, api_calls, last_call, api_run, start_raised, sync>>

\* Cache.delete raised: the exception leaves the handler, the quote stays
UnsubscribeDeleteFails ==
    /\ unsub.pc = "delete"
    /\ unsub' = [unsub EXCEPT !.pc = "idle", !.res = "CacheError"]
    /\ UNCHANGED <<provider, network, pc, rfLocals, rf_cancel, feed, aggregator,
                   history, direct, units, api_calls, last_call, api_run, start_raised, sync>>

\* --------------------------------------------------------------- disconnect
\* ws.close() performs the closing handshake: an open transport ends normally
Closed(ts, t) == [ts EXCEPT ![t] = IF @ = "open" THEN "closed_ok" ELSE @]

\* disconnect() called directly, once, on a client whose feed has been started:
\* self._running = False, then close if connected
DiscBegin ==
    /\ pc["disc"] = "idle" /\ pc["rf"] # "idle"
    /\ running' = FALSE
    /\ IF ws # 0
       THEN /\ tstate' = Closed(tstate, ws)
            /\ pc' = [pc EXCEPT !["disc"] = "closing"]
       ELSE /\ pc' = [pc EXCEPT !["disc"] = "returned"]
            /\ UNCHANGED tstate
    /\ UNCHANGED <<ws, session_id, subscriptions, reconnect_delay, sent, sid_gen,
                   rfLocals, rf_cancel, feed, aggregator, callers, direct, units, history>>

\* ws.close() returned: self._ws = None
DiscClosed ==
    /\ pc["disc"] = "closing"
    /\ ws' = 0
    /\ pc' = [pc EXCEPT !["disc"] = "returned"]
    /\ UNCHANGED <<session_id, subscriptions, running, reconnect_delay, network,
                   rfLocals, rf_cancel, feed, aggregator, callers, direct, units, history>>

\* -------------------------------------------------- StopQuoteFeedHandler.handle
\* flush_all_bars: every non-empty builder is upserted and the map is cleared
ClearedBars == EmptyDict

\* ws_task.cancel(): a request, unless the task is already done
CancelRequested == rf_cancel \/ (ws_task /\ RfAlive)

\* the handler's call of flush_all_bars, made as the task Caller
StopFlushTask == [NoTask EXCEPT !.op = "flush_all_bars"]

\* handle() once flush_all_bars has returned: state.running = False;
\* disconnect() up to its await of ws.close(), or, with no transport to close,
\* on to ws_task.cancel() and await ws_task
StopDisconnects ==
    /\ state_running' = FALSE
    /\ running' = FALSE
    /\ IF ws # 0
       THEN /\ tstate' = Closed(tstate, ws)
            /\ pc' = [pc EXCEPT !["stop"] = "closing"]
            /\ UNCHANGED rf_cancel
       ELSE /\ rf_cancel' = CancelRequested
            /\ pc' = [pc EXCEPT !["stop"] = "join"]
            /\ UNCHANGED tstate

\* the handler's flush_all_bars ran on to r. It awaits update_one for a builder
\* that is not empty: the handler is suspended there, inside the lock, with
\* state.running still True. Or an update_one raised: the exception leaves
\* flush_all_bars and the handler, nothing of line 134 on is run. Or it
\* returned: the handler goes on.
StopFlushRuns(r) ==
    /\ bars' = r.bars
    /\ bars_order' = Inserted(bars_order, r.bars)
    /\ storage' = r.storage
    /\ lock' = IF r.release THEN 0 ELSE Caller
    /\ tasks' = [tasks EXCEPT ![Caller] = IF r.task.pc = "idle" THEN NoTask ELSE r.task]
    /\ IF r.task.pc # "idle"
       THEN /\ pc' = [pc EXCEPT !["stop"] = "flush"]
            /\ UNCHANGED <<running, state_running, tstate, rf_cancel>>
       ELSE IF r.task.raised
       THEN /\ pc' = [pc EXCEPT !["stop"] = "idle"]
            /\ UNCHANGED <<running, state_running, tstate, rf_cancel>>
       ELSE StopDisconnects

\* StopQuoteFeedHandler.handle from its call to its await in disconnect(), one
\* step per await on the way. Called: "not_running", or flush_all_bars() is
\* called, which takes the lock or is suspended in acquire() ("acquire"), and
\* runs on to its first update_one ("flush") or, with no builder to save, to
\* its end. Resumed in update_one, which returned or raised: the next builder,
\* or the end of the flush. Resumed in acquire(): the flush from its start.
StopCmd ==
    /\ IF pc["stop"] = "idle"
       THEN /\ pc["start"] = "idle"
            /\ IF ~state_running
               THEN UNCHANGED <<running, tstate, pc, rf_cancel, state_running, bar_map,
                                storage, lock, lock_waiters, tasks>>
               ELSE IF LockFree(Caller)
               THEN /\ \E r \in {EnterLock(bars, storage, StopFlushTask)} : StopFlushRuns(r)
                    /\ UNCHANGED lock_waiters
               ELSE /\ pc' = [pc EXCEPT !["stop"] = "acquire"]
                    /\ lock_waiters' = Append(lock_waiters, Caller)
                    /\ UNCHANGED <<running, tstate, rf_cancel, state_running, bar_map,
                                   storage, lock, tasks>>
       ELSE IF pc["stop"] = "flush"
       THEN /\ \E r \in {FlushNextBar(bars, Saved(storage, tasks[Caller].io),
                                     [tasks[Caller] EXCEPT !.saved_count = @ + 1]),
                        SaveRaised(bars, storage, tasks[Caller])} : StopFlushRuns(r)
            /\ UNCHANGED lock_waiters
       ELSE /\ pc["stop"] = "acquire"
            /\ lock = 0 /\ Head(lock_waiters) = Caller
            /\ lock_waiters' = Tail(lock_waiters)
            /\ \E r \in {EnterLock(bars, storage, StopFlushTask)} : StopFlushRuns(r)
    /\ UNCHANGED <<ws, session_id, subscriptions, reconnect_delay, sent, sid_gen,
                   rfLocals, ws_task, commands, quote_cache, callers, units, history,
                   agg_calls, agg_run, agg_last, bar_cache, got>>

\* disconnect(): ws.close() returned, self._ws = None; then ws_task.cancel()
StopClosed ==
    /\ pc["stop"] = "closing"
    /\ ws' = 0
    /\ rf_cancel' = CancelRequested
    /\ pc' = [pc EXCEPT !["stop"] = "join"]
    /\ UNCHANGED <<session_id, subscriptions, running, reconnect_delay, network,
                   rfLocals, feed, aggregator, callers, direct, units, history>>

\* await ws_task returned: the task is done; the handler returns "stopped"
StopJoined ==
    /\ pc["stop"] = "join"
    /\ ~RfAlive
    /\ pc' = [pc EXCEPT !["stop"] = "idle"]
    /\ UNCHANGED <<provider, network, rfLocals, rf_cancel, feed, aggregator,
                   callers, direct, units, history>>

\* ------------------------------------- the handlers, as concurrent tasks
\* Start and Stop commands handled by tasks of one event loop, each suspended at
\* the awaits of its handler; every run_forever task a Start creates runs the
\* loop of run_forever, suspended at its awaits: websockets.connect ("opening"),
\* the sends of connect() ("conn1", "conn2"), the receive of the async-for on
\* the transport `iter` ("recv"), the backoff sleep ("sleep")
HandlerIds == 1..MaxHandlers
RfTaskIds == 1..MaxCommands
Alive(r) == rf_tasks[r].st \notin {"none", "done"}
\* no task keeps the event loop to itself: a task that iterates a transport
\* closed normally, with _running true, goes round the while loop without an
\* await ("spin"), and no other task of the loop runs again
EventLoopRuns == \A r \in RfTaskIds : rf_tasks[r].st # "spin"
\* the handler returns res, or ends with an exception ("raised")
HandlerDone(op, res) == [NoHandler EXCEPT !.op = op, !.res = res]
HandlerAt(op, where) == [NoHandler EXCEPT !.op = op, !.pc = where]
\* asyncio.create_task: the next task
NextRfTask == CHOOSE r \in RfTaskIds : rf_tasks[r].st = "none" /\ \A q \in 1..(r - 1) : rf_tasks[q].st # "none"
\* if self.state.ws_task: self.state.ws_task.cancel(): a request, unless the
\* task is already done
CancelWsTask ==
    [r \in RfTaskIds |-> IF r = ws_task_id /\ Alive(r)
                          THEN [rf_tasks[r] EXCEPT !.cancel = TRUE] ELSE rf_tasks[r]]

\* StartQuoteFeedHandler.handle up to its first await: "already_running", or
\* provider.connect() suspended in websockets.connect
HStartCmd ==
    /\ EventLoopRuns
    /\ cmd_count < MaxCommands
    /\ cmd_count' = cmd_count + 1
    /\ \E h \in HandlerIds :
          /\ handlers[h].pc = "idle"
          /\ handlers' = [handlers EXCEPT ![h] =
                             IF state_running THEN HandlerDone("start", "already_running")
                             ELSE HandlerAt("start", "opening")]
    /\ UNCHANGED <<provider, network, pc, rfLocals, rf_cancel, state_running, ws_task,
                   rf_tasks, ws_task_id, aggregator, callers, history, direct, units>>

\* connect(): websockets.connect returned a transport; _ws and the session id
\* are set and quote_create_session is sent
HStartOpenOK ==
    /\ EventLoopRuns
    /\ \E t \in Transports : tstate[t] = "unused"
    /\ \E h \in HandlerIds :
          /\ handlers[h].pc = "opening"
          /\ handlers' = [handlers EXCEPT ![h] = HandlerAt("start", "conn1")]
    /\ ws' = NextTransport
    /\ tstate' = [tstate EXCEPT ![NextTransport] = "open"]
    /\ session_id' = GenerateSessionId
    /\ sid_gen' = sid_gen + 1
    /\ sent' = Append(sent, Frame(NextTransport, "quote_create_session",
                                  CreateSessionParams(GenerateSessionId), NoKey,
                                  sid_gen + 1))
    /\ UNCHANGED <<subscriptions, running, reconnect_delay, pc, rfLocals, rf_cancel,
                   state_running, ws_task, cmd_count, rf_tasks, ws_task_id, aggregator,
                   callers, history, direct, units>>

\* connect(): websockets.connect raised; the command ends with the exception
HStartOpenFail ==
    /\ EventLoopRuns
    /\ \E h \in HandlerIds :
          /\ handlers[h].pc = "opening"
          /\ handlers' = [handlers EXCEPT ![h] = HandlerDone("start", "raised")]
    /\ UNCHANGED <<provider, network, pc, rfLocals, rf_cancel, state_running, ws_task,
                   cmd_count, rf_tasks, ws_task_id, aggregator, callers, history,
                   direct, units>>

\* connect(): quote_set_fields, on whatever _ws is by now
HStartSetFields ==
    /\ EventLoopRuns
    /\ \E h \in HandlerIds :
          /\ handlers[h].pc = "conn1"
          /\ handlers' = [handlers EXCEPT ![h] =
                             IF CanSend THEN HandlerAt("start", "conn2")
                             ELSE HandlerDone("start", "raised")]
    /\ sent' = IF CanSend
               THEN Append(sent, Frame(ws, "quote_set_fields", SetFieldsParams, NoKey,
                                       sid_gen))
               ELSE sent
    /\ UNCHANGED <<provider, tstate, sid_gen, pc, rfLocals, rf_cancel, state_running,
                   ws_task, cmd_count, rf_tasks, ws_task_id, aggregator, callers,
                   history, direct, units>>

\* connect() resets the delay and returns; state.running = True;
\* state.ws_task = create_task(run_forever()); "started"
HStartReturn ==
    /\ EventLoopRuns
    /\ \E h \in HandlerIds :
          /\ handlers[h].pc = "conn2"
          /\ handlers' = [handlers EXCEPT ![h] = HandlerDone("start", "started")]
    /\ reconnect_delay' = ResetDelay(reconnect_delay)
    /\ state_running' = TRUE
    /\ ws_task' = TRUE
    /\ rf_tasks' = [rf_tasks EXCEPT ![NextRfTask] = [NoRfTask EXCEPT !.st = "created"]]
    /\ ws_task_id' = NextRfTask
    /\ UNCHANGED <<ws, session_id, subscriptions, running, network, pc, rfLocals,
                   rf_cancel, cmd_count, aggregator, callers, history, direct, units>>

\* handle() of handler h once flush_all_bars has returned: state.running = False;
\* disconnect() suspended in ws.close(), or, with no transport to close,
\* ws_task.cancel() and await ws_task
HStopDisconnects(h) ==
    /\ handlers' = [handlers EXCEPT ![h] =
                       IF ws # 0 THEN HandlerAt("stop", "closing")
                       ELSE [HandlerAt("stop", "join") EXCEPT !.task = ws_task_id]]
    /\ state_running' = FALSE
    /\ running' = FALSE
    /\ tstate' = IF ws # 0 THEN Closed(tstate, ws) ELSE tstate
    /\ rf_tasks' = IF ws # 0 THEN rf_tasks ELSE CancelWsTask

\* the flush_all_bars of handler h ran on to r: suspended in update_one inside
\* the lock, with state.running still True; or an update_one raised, and the
\* command ends with the exception; or it returned, and the handler goes on
HStopFlushRuns(h, r) ==
    /\ bars' = r.bars
    /\ bars_order' = Inserted(bars_order, r.bars)
    /\ storage' = r.storage
    /\ lock' = IF r.release THEN 0 ELSE h
    /\ IF r.task.pc # "idle"
       THEN /\ handlers' = [handlers EXCEPT ![h] =
                               [HandlerAt("stop", "flush") EXCEPT !.flush = r.task]]
            /\ UNCHANGED <<running, state_running, tstate, rf_tasks>>
       ELSE IF r.task.raised
       THEN /\ handlers' = [handlers EXCEPT ![h] = HandlerDone("stop", "raised")]
            /\ UNCHANGED <<running, state_running, tstate, rf_tasks>>
       ELSE HStopDisconnects(h)

\* StopQuoteFeedHandler.handle run by a handler task, from its call to its await
\* in disconnect(), one step per await on the way. Called: "not_running", or
\* flush_all_bars() is called, which takes the lock or is suspended in
\* acquire() ("acquire"), and runs on to its first update_one ("flush") or, with
\* no builder to save, to its end. Resumed in update_one, which returned or
\* raised: the next builder, or the end of the flush. Resumed in acquire(): the
\* flush from its start.
HStopCmd ==
    /\ EventLoopRuns
    /\ \E h \in HandlerIds :
          IF handlers[h].pc = "idle"
          THEN /\ cmd_count < MaxCommands
               /\ cmd_count' = cmd_count + 1
               /\ IF ~state_running
                  THEN /\ handlers' = [handlers EXCEPT ![h] =
                                          HandlerDone("stop", "not_running")]
                       /\ UNCHANGED <<running, tstate, state_running, bar_map, storage,
                                      rf_tasks, lock, lock_waiters>>
                  ELSE IF LockFree(h)
                  THEN /\ \E r \in {EnterLock(bars, storage, StopFlushTask)} :
                             HStopFlushRuns(h, r)
                       /\ UNCHANGED lock_waiters
                  ELSE /\ handlers' = [handlers EXCEPT ![h] = HandlerAt("stop", "acquire")]
                       /\ lock_waiters' = Append(lock_waiters, h)
                       /\ UNCHANGED <<running, tstate, state_running, bar_map, storage,
                                      rf_tasks, lock>>
          ELSE IF handlers[h].pc = "flush"
          THEN /\ \E r \in {FlushNextBar(bars, Saved(storage, handlers[h].flush.io),
                                        [handlers[h].flush EXCEPT !.saved_count = @ + 1]),
                           SaveRaised(bars, storage, handlers[h].flush)} :
                     HStopFlushRuns(h, r)
               /\ UNCHANGED <<cmd_count, lock_waiters>>
          ELSE /\ handlers[h].pc = "acquire"
               /\ lock = 0 /\ Head(lock_waiters) = h
               /\ lock_waiters' = Tail(lock_waiters)
               /\ \E r \in {EnterLock(bars, storage, StopFlushTask)} : HStopFlushRuns(h, r)
               /\ UNCHANGED cmd_count
    /\ UNCHANGED <<ws, session_id, subscriptions, reconnect_delay, sent, sid_gen, pc,
                   rfLocals, rf_cancel, ws_task, ws_task_id, quote_cache, callers,
                   history, units, agg_calls, agg_run, agg_last, tasks, bar_cache, got>>

\* disconnect(): ws.close() returned, self._ws = None; then ws_task.cancel() and
\* await ws_task
HStopClosed ==
    /\ EventLoopRuns
    /\ \E h \in HandlerIds :
          /\ handlers[h].pc = "closing"
          /\ handlers' = [handlers EXCEPT ![h] =
                             [HandlerAt("stop", "join") EXCEPT !.task = ws_task_id]]
    /\ ws' = 0
    /\ rf_tasks' = CancelWsTask
    /\ UNCHANGED <<session_id, subscriptions, running, reconnect_delay, network, pc,
                   rfLocals, rf_cancel, state_running, ws_task, cmd_count, ws_task_id,
                   aggregator, callers, history, direct, units>>

\* await ws_task returned: the task is done; "stopped"
HStopJoined ==
    /\ EventLoopRuns
    /\ \E h \in HandlerIds :
          /\ handlers[h].pc = "join"
          /\ handlers[h].task # 0 => rf_tasks[handlers[h].task].st = "done"
          /\ handlers' = [handlers EXCEPT ![h] = HandlerDone("stop", "stopped")]
    /\ UNCHANGED <<provider, network, pc, rfLocals, rf_cancel, state_running, ws_task,
                   cmd_count, rf_tasks, ws_task_id, aggregator, callers, history,
                   direct, units>>

\* run_forever's except clauses: self._ws = None, then the backoff sleep if
\* _running, else the while loop ends
RfTaskExcept(run) == [st |-> IF run THEN "sleep" ELSE "done", iter |-> 0, ws |-> 0]
\* another task is suspended in recv() on transport w
RecvBusy(w, r) == \E q \in RfTaskIds \ {r} : rf_tasks[q].st = "recv" /\ rf_tasks[q].iter = w
\* `async for raw_data in self._ws` by task r: iterating None raises TypeError;
\* recv() raises ConcurrencyError while another task is in recv() on the same
\* connection, and ConnectionClosedError on a connection closed abnormally; on a
\* connection closed normally the iteration ends at once and the while loop
\* comes back to it; else the task is suspended in recv()
RfTaskIterate(r, w, run) ==
    IF w = 0 \/ RecvBusy(w, r) THEN RfTaskExcept(run)
    ELSE IF tstate[w] = "closed_err" THEN RfTaskExcept(run)
    ELSE IF tstate[w] = "closed_ok"
    THEN [st |-> IF run THEN "spin" ELSE "done", iter |-> w, ws |-> w]
    ELSE [st |-> "recv", iter |-> w, ws |-> w]
\* `while self._running:` by task r, with _ws = w
RfTaskLoop(r, w, run) ==
    IF ~run THEN [st |-> "done", iter |-> 0, ws |-> w]
    ELSE IF w = 0 THEN [st |-> "opening", iter |-> 0, ws |-> w]
    ELSE RfTaskIterate(r, w, run)
RfTaskApply(r, s) ==
    /\ rf_tasks' = [rf_tasks EXCEPT ![r].st = s.st, ![r].iter = s.iter]
    /\ ws' = s.ws
\* task r is suspended at `where` and no cancellation is pending
RfTaskAt(r, where) == rf_tasks[r].st = where /\ ~rf_tasks[r].cancel

\* a run_forever task's first step: self._running = True, then the loop up to
\* its first await
RfTaskBegin ==
    /\ EventLoopRuns
    /\ \E r \in RfTaskIds :
          /\ RfTaskAt(r, "created")
          /\ RfTaskApply(r, RfTaskLoop(r, ws, TRUE))
    /\ running' = TRUE
    /\ UNCHANGED <<session_id, subscriptions, reconnect_delay, network>>
    /\ UNCHANGED <<pc, rfLocals, rf_cancel, state_running, ws_task, handlers, cmd_count,
                   ws_task_id, aggregator, callers, history, direct, units>>

\* connect() in a task: websockets.connect returned a transport; _ws and the
\* session id are set and quote_create_session is sent
RfTaskOpenOK ==
    /\ EventLoopRuns
    /\ \E t \in Transports : tstate[t] = "unused"
    /\ \E r \in RfTaskIds :
          /\ RfTaskAt(r, "opening")
          /\ rf_tasks' = [rf_tasks EXCEPT ![r].st = "conn1"]
    /\ ws' = NextTransport
    /\ tstate' = [tstate EXCEPT ![NextTransport] = "open"]
    /\ session_id' = GenerateSessionId
    /\ sid_gen' = sid_gen + 1
    /\ sent' = Append(sent, Frame(NextTransport, "quote_create_session",
                                  CreateSessionParams(GenerateSessionId), NoKey,
                                  sid_gen + 1))
    /\ UNCHANGED <<subscriptions, running, reconnect_delay>>
    /\ UNCHANGED <<pc, rfLocals, rf_cancel, state_running, ws_task, handlers, cmd_count,
                   ws_task_id, aggregator, callers, history, direct, units>>

\* connect() in a task: websockets.connect raised, `except Exception`
RfTaskOpenFail ==
    /\ EventLoopRuns
    /\ \E r \in RfTaskIds :
          /\ RfTaskAt(r, "opening")
          /\ RfTaskApply(r, RfTaskExcept(running))
    /\ UNCHANGED <<session_id, subscriptions, running, reconnect_delay, network>>
    /\ UNCHANGED <<pc, rfLocals, rf_cancel, state_running, ws_task, handlers, cmd_count,
                   ws_task_id, aggregator, callers, history, direct, units>>

\* connect() in a task: quote_set_fields, on whatever _ws is by now; a send
\* that raises ends in an except clause
RfTaskSetFields ==
    /\ EventLoopRuns
    /\ \E r \in RfTaskIds :
          /\ RfTaskAt(r, "conn1")
          /\ RfTaskApply(r, IF CanSend THEN [st |-> "conn2", iter |-> 0, ws |-> ws]
                             ELSE RfTaskExcept(running))
    /\ sent' = IF CanSend
               THEN Append(sent, Frame(ws, "quote_set_fields", SetFieldsParams, NoKey,
                                       sid_gen))
               ELSE sent
    /\ UNCHANGED <<session_id, subscriptions, running, reconnect_delay, tstate, sid_gen>>
    /\ UNCHANGED <<pc, rfLocals, rf_cancel, state_running, ws_task, handlers, cmd_count,
                   ws_task_id, aggregator, callers, history, direct, units>>

\* connect() resets the delay and returns; no key is subscribed, so nothing is
\* resubscribed; then the async-for, on whatever _ws is by now
RfTaskConnected ==
    /\ EventLoopRuns
    /\ subscriptions = <<>>
    /\ \E r \in RfTaskIds :
          /\ RfTaskAt(r, "conn2")
          /\ RfTaskApply(r, RfTaskIterate(r, ws, running))
    /\ reconnect_delay' = ResetDelay(reconnect_delay)
    /\ UNCHANGED <<session_id, subscriptions, running, network>>
    /\ UNCHANGED <<pc, rfLocals, rf_cancel, state_running, ws_task, handlers, cmd_count,
                   ws_task_id, aggregator, callers, history, direct, units>>

\* a task suspended in recv() finds its transport closed while _running:
\* ConnectionClosedError ends in the except clause; after a normal close the
\* async-for ends and the while loop goes round
RfTaskClosed ==
    /\ EventLoopRuns
    /\ running
    /\ \E r \in RfTaskIds :
          /\ RfTaskAt(r, "recv")
          /\ tstate[rf_tasks[r].iter] \in {"closed_ok", "closed_err"}
          /\ RfTaskApply(r, IF tstate[rf_tasks[r].iter] = "closed_err"
                             THEN RfTaskExcept(TRUE)
                             ELSE RfTaskLoop(r, ws, TRUE))
    /\ UNCHANGED <<session_id, subscriptions, running, reconnect_delay, network>>
    /\ UNCHANGED <<pc, rfLocals, rf_cancel, state_running, ws_task, handlers, cmd_count,
                   ws_task_id, aggregator, callers, history, direct, units>>

\* asyncio.sleep(self._reconnect_delay) elapsed while _running: the delay
\* doubles and the while loop goes round
RfTaskSleepDone ==
    /\ EventLoopRuns
    /\ running
    /\ \E r \in RfTaskIds :
          /\ RfTaskAt(r, "sleep")
          /\ RfTaskApply(r, RfTaskLoop(r, ws, TRUE))
    /\ reconnect_delay' = NextDelay(reconnect_delay)
    /\ UNCHANGED <<session_id, subscriptions, running, network>>
    /\ UNCHANGED <<pc, rfLocals, rf_cancel, state_running, ws_task, handlers, cmd_count,
                   ws_task_id, aggregator, callers, history, direct, units>>

\* CancelledError is thrown into a run_forever task at its await, or before its
\* first step
RfTaskCancelled ==
    /\ EventLoopRuns
    /\ \E r \in RfTaskIds :
          /\ Alive(r) /\ rf_tasks[r].cancel
          /\ rf_tasks' = [rf_tasks EXCEPT ![r].st = "done"]
    /\ UNCHANGED <<provider, network, pc, rfLocals, rf_cancel, state_running, ws_task,
                   handlers, cmd_count, ws_task_id, aggregator, callers, history,
                   direct, units>>

\* a run_forever task finds _running false and returns: after a chunk (break),
\* at the end of the async-for, after a ConnectionClosedError (self._ws = None),
\* or after a sleep (the delay has doubled)
RfTaskExits ==
    /\ EventLoopRuns
    /\ ~running
    /\ \E r \in RfTaskIds :
          \/ /\ RfTaskAt(r, "recv")
             /\ RfTaskApply(r, IF tstate[rf_tasks[r].iter] = "closed_err"
                                THEN RfTaskExcept(FALSE)
                                ELSE [st |-> "done", iter |-> 0, ws |-> ws])
             /\ UNCHANGED reconnect_delay
          \/ /\ RfTaskAt(r, "sleep")
             /\ RfTaskApply(r, RfTaskLoop(r, ws, FALSE))
             /\ reconnect_delay' = NextDelay(reconnect_delay)
    /\ UNCHANGED <<session_id, subscriptions, running, network>>
    /\ UNCHANGED <<pc, rfLocals, rf_cancel, state_running, ws_task, handlers, cmd_count,
                   ws_task_id, aggregator, callers, history, direct, units>>

\* ------------------------------------------- the BarManager, called directly
\* the ticks fed: for one symbol, in the one-minute windows [0, 60) and
\* [60, 120), in the next five-minute window [300, 600), and on the next day,
\* at prices with and without a volume; one tick of a second symbol; one tick
\* stamped like the live feed's, with a tzinfo
AggTimes == {30, 70, 330, 90000}
AggValues == {<<10, 5>>, <<8, None>>}
AggTicks ==
    {QuoteTick("NASDAQ:AAPL", Naive(t), v[1], v[2]) : t \in AggTimes, v \in AggValues}
        \cup {QuoteTick("NYSE:TSLA", Naive(30), 10, 5),
              QuoteTick("NASDAQ:AAPL", Aware(70), 10, 5)}

\* task p runs on to its next await, or to the end of its call
TaskRuns(p, r) ==
    /\ bars' = r.bars
    /\ bars_order' = Inserted(bars_order, r.bars)
    /\ storage' = r.storage
    /\ tasks' = [tasks EXCEPT ![p] = r.task]
    /\ lock' = IF r.release THEN 0 ELSE p

\* the call ended: what is kept of it
AggReturned(t, trace) ==
    [op |-> t.op, tick |-> t.tick, raised |-> t.raised, upserted |-> trace.upserted,
     published |-> trace.published, ret |-> t.saved_count, replaced |-> trace.replaced,
     before |-> trace.before, seq |-> agg_last.seq + 1]
\* the caller's call runs on to its next await, or to its end
AggRuns(r, trace) ==
    /\ TaskRuns(Caller, r)
    /\ agg_run' = trace
    /\ agg_last' = IF r.task.pc = "idle" THEN AggReturned(r.task, trace) ELSE agg_last
\* update_one returned for the bar awaited: it is upserted, over the row it matched
AggSavedTrace ==
    [agg_run EXCEPT
        !.upserted = @ \cup {ToAggregatedBar(tasks[Caller].io.bar)},
        !.replaced = @ \cup Matching(storage, ToMongo(ToAggregatedBar(tasks[Caller].io.bar)))]

\* the caller calls add_tick or flush_all_bars: the lock is free, the call runs to
\* its first await or, if it awaits nothing, to its end
AggCall(op, tick) ==
    /\ tasks[Caller].pc = "idle" /\ LockFree(Caller)
    /\ \E r \in {EnterLock(bars, storage, [NoTask EXCEPT !.op = op, !.tick = tick])} :
          AggRuns(r, [NoTrace EXCEPT !.before = bars,
                                     !.delivered = agg_run.delivered \cup agg_run.upserted,
                                     !.raises = agg_run.raises])
    /\ UNCHANGED <<provider, network, pc, rfLocals, rf_cancel, feed, quote_cache,
                   callers, history, units, lock_waiters, bar_cache, got>>
\* await bar_manager.add_tick(tick), up to its first await
AggAddTick ==
    /\ agg_calls < MaxAggCalls
    /\ agg_calls' = agg_calls + 1
    /\ \E tick \in AggTicks : AggCall("add_tick", tick)
\* await bar_manager.flush_all_bars(), up to its first await
AggFlush ==
    /\ agg_calls < MaxAggCalls
    /\ agg_calls' = agg_calls + 1
    /\ AggCall("flush_all_bars", NoTick)

\* add_tick: update_one returned; the new builder replaces the saved one and takes
\* the tick, and Cache.set is awaited
AggAddTickSaved ==
    /\ tasks[Caller].pc = "save"
    /\ \E r \in {AddTickFeed(bars, Saved(storage, tasks[Caller].io), tasks[Caller], TRUE)} :
          AggRuns(r, AggSavedTrace)
    /\ UNCHANGED <<provider, network, pc, rfLocals, rf_cancel, feed, quote_cache,
                   callers, history, units, agg_calls, lock_waiters, bar_cache, got>>

\* add_tick: Cache.set returned, the builder's state is in the cache; the next
\* interval, or the end of the call
AggAddTickCached ==
    /\ tasks[Caller].pc = "cache"
    /\ bar_cache' = CacheSet(bar_cache, tasks[Caller].io.bar)
    /\ \E r \in {AddTickInterval(bars, storage, [tasks[Caller] EXCEPT !.n = @ + 1])} :
          AggRuns(r, [agg_run EXCEPT
                         !.published = Append(@, ToCacheDict(tasks[Caller].io.bar))])
    /\ UNCHANGED <<provider, network, pc, rfLocals, rf_cancel, feed, quote_cache,
                   callers, history, units, agg_calls, lock_waiters, got>>

\* add_tick: update_one raised; the call ends with the exception, the completed
\* builder still in the map
AggAddTickSaveFails ==
    /\ tasks[Caller].pc = "save"
    /\ agg_run.raises < MaxRaises
    /\ \E r \in {SaveRaised(bars, storage, tasks[Caller])} :
          AggRuns(r, [agg_run EXCEPT !.raises = @ + 1])
    /\ UNCHANGED <<provider, network, pc, rfLocals, rf_cancel, feed, quote_cache,
                   callers, history, units, agg_calls, lock_waiters, bar_cache, got>>

\* add_tick: Cache.set raised; the call ends with the exception
AggAddTickCacheFails ==
    /\ tasks[Caller].pc = "cache"
    /\ agg_run.raises < MaxRaises
    /\ \E r \in {CacheRaised(bars, storage, tasks[Caller])} :
          AggRuns(r, [agg_run EXCEPT !.raises = @ + 1])
    /\ UNCHANGED <<provider, network, pc, rfLocals, rf_cancel, feed, quote_cache,
                   callers, history, units, agg_calls, lock_waiters, bar_cache, got>>

\* flush_all_bars: update_one returned; saved_count += 1 and the next builder, or
\* the map is cleared and the call returns
AggFlushSaved ==
    /\ tasks[Caller].pc = "fsave"
    /\ \E r \in {FlushNextBar(bars, Saved(storage, tasks[Caller].io),
                                [tasks[Caller] EXCEPT !.saved_count = @ + 1])} :
          AggRuns(r, AggSavedTrace)
    /\ UNCHANGED <<provider, network, pc, rfLocals, rf_cancel, feed, quote_cache,
                   callers, history, units, agg_calls, lock_waiters, bar_cache, got>>

\* flush_all_bars: update_one raised, before self._bars.clear(); the call ends
\* with the exception
AggFlushSaveFails ==
    /\ tasks[Caller].pc = "fsave"
    /\ agg_run.raises < MaxRaises
    /\ \E r \in {SaveRaised(bars, storage, tasks[Caller])} :
          AggRuns(r, [agg_run EXCEPT !.raises = @ + 1])
    /\ UNCHANGED <<provider, network, pc, rfLocals, rf_cancel, feed, quote_cache,
                   callers, history, units, agg_calls, lock_waiters, bar_cache, got>>

\* ------------------------------------------------- SyncSymbolHandler.handle
\* the bars the provider's history returns for a symbol and an interval
SyncRecords ==
    {[key |-> "NASDAQ:AAPL", interval |-> "1m", datetime |-> Naive(s),
      open |-> 9, high |-> 11, low |-> 8, close |-> 9, volume |-> 7] : s \in {0, 60}}
\* _upsert_many: one UpdateOne per record, each with $set and $setOnInsert of
\* created_at and upsert=True, written by bulk_write
RECURSIVE UpsertMany(_, _, _)
UpsertMany(coll, records, created_at) ==
    IF records = {} THEN coll
    ELSE Only({UpsertMany(Upsert(coll, rec, created_at), records \ {rec}, created_at)
                 : rec \in {CHOOSE x \in records : TRUE}})
\* _upsert_many up to its await: an OHLCV is built for every record fetched, its
\* created_at stamped by the field's default as it is built (line 147), and one
\* UpdateOne is made of each; then bulk_write is awaited (line 168)
SyncBuildsRecords ==
    /\ sync.pc = "idle"
    /\ agg_calls < MaxAggCalls
    /\ agg_calls' = agg_calls + 1
    /\ sync' = [pc |-> "bulk_write", records |-> SyncRecords, created_at |-> UtcNow]
    /\ UNCHANGED <<provider, network, pc, rfLocals, rf_cancel, feed, aggregator,
                   api_calls, last_call, api_run, start_raised, unsub, history, units, agg_run,
                   agg_last, lock, lock_waiters, tasks, bar_cache, got>>
\* bulk_write returned: the records are rows of the ohlcv collection, the one the
\* BarManager saves its bars to; a row inserted carries the created_at its
\* record was built with
SyncUpsertMany ==
    /\ sync.pc = "bulk_write"
    /\ storage' = UpsertMany(storage, sync.records, sync.created_at)
    /\ sync' = NoSync
    /\ UNCHANGED <<provider, network, pc, rfLocals, rf_cancel, feed, bar_map, quote_cache,
                   api_calls, last_call, api_run, start_raised, unsub, history, units, direct>>


\* ---------------------------------------- the BarManager, called concurrently
\* the ticks: two in consecutive one-minute windows, and one stamped like the
\* live feed's, for which _get_bar_start raises
LockTicks ==
    {QuoteTick("NASDAQ:AAPL", ts, 10, 5) : ts \in {Naive(30), Naive(70), Aware(30)}}
LockTasks == 1..MaxTasks
\* the task is suspended inside `async with self._lock`
Inside(p) == tasks[p].pc \in {"save", "cache", "fsave"}

\* task p calls add_tick(tick) or flush_all_bars(): it takes the lock and runs on,
\* or is suspended in acquire()
LockCall(p, op, tick) ==
    /\ agg_calls < MaxLockCalls
    /\ tasks[p].pc = "idle"
    /\ agg_calls' = agg_calls + 1
    /\ \E t \in {[NoTask EXCEPT !.op = op, !.tick = tick]} :
          IF LockFree(p)
          THEN \E r \in {EnterLock(bars, storage, t)} :
                  TaskRuns(p, r) /\ UNCHANGED lock_waiters
          ELSE /\ tasks' = [tasks EXCEPT ![p] = [t EXCEPT !.pc = "waiting"]]
               /\ lock_waiters' = Append(lock_waiters, p)
               /\ UNCHANGED <<bar_map, storage, lock>>
    /\ UNCHANGED <<provider, network, pc, rfLocals, rf_cancel, feed, quote_cache,
                   callers, history, units, bar_cache, got>>
LockCallAddTick ==
    /\ \E p \in LockTasks, tick \in LockTicks : LockCall(p, "add_tick", tick)
    /\ UNCHANGED <<agg_run, agg_last>>
LockCallFlush ==
    /\ \E p \in LockTasks : LockCall(p, "flush_all_bars", NoTick)
    /\ UNCHANGED <<agg_run, agg_last>>

\* release() woke the first waiter: it takes the lock and runs on
LockWake ==
    /\ lock = 0 /\ lock_waiters # <<>>
    /\ lock_waiters' = Tail(lock_waiters)
    /\ \E r \in {EnterLock(bars, storage, tasks[Head(lock_waiters)])} :
          TaskRuns(Head(lock_waiters), r)
    /\ UNCHANGED <<provider, network, pc, rfLocals, rf_cancel, feed, quote_cache,
                   callers, history, units, agg_calls, agg_run, agg_last, bar_cache, got>>

\* add_tick: update_one returned; the new builder replaces the saved one and takes
\* the tick, and Cache.set is awaited
LockAddTickSaved ==
    /\ \E p \in LockTasks :
          /\ tasks[p].pc = "save"
          /\ \E r \in {AddTickFeed(bars, Saved(storage, tasks[p].io), tasks[p], TRUE)} :
                TaskRuns(p, r)
    /\ UNCHANGED <<provider, network, pc, rfLocals, rf_cancel, feed, quote_cache,
                   callers, history, units, agg_calls, agg_run, agg_last, lock_waiters, bar_cache, got>>

\* add_tick: update_one raised
LockAddTickSaveFails ==
    /\ \E p \in LockTasks :
          /\ tasks[p].pc = "save"
          /\ \E r \in {SaveRaised(bars, storage, tasks[p])} : TaskRuns(p, r)
    /\ UNCHANGED <<provider, network, pc, rfLocals, rf_cancel, feed, quote_cache,
                   callers, history, units, agg_calls, agg_run, agg_last, lock_waiters, bar_cache, got>>

\* add_tick: Cache.set returned, the builder's state is in the cache; the next
\* interval, or the end of the call
LockAddTickCached ==
    /\ \E p \in LockTasks :
          /\ tasks[p].pc = "cache"
          /\ bar_cache' = CacheSet(bar_cache, tasks[p].io.bar)
          /\ \E r \in {AddTickInterval(bars, storage, [tasks[p] EXCEPT !.n = @ + 1])} :
                TaskRuns(p, r)
    /\ UNCHANGED <<provider, network, pc, rfLocals, rf_cancel, feed, quote_cache,
                   callers, history, units, agg_calls, agg_run, agg_last, lock_waiters, got>>

\* add_tick: Cache.set raised; the call ends with the exception
LockAddTickCacheFails ==
    /\ \E p \in LockTasks :
          /\ tasks[p].pc = "cache"
          /\ \E r \in {CacheRaised(bars, storage, tasks[p])} : TaskRuns(p, r)
    /\ UNCHANGED <<provider, network, pc, rfLocals, rf_cancel, feed, quote_cache,
                   callers, history, units, agg_calls, agg_run, agg_last, lock_waiters, bar_cache, got>>

\* the symbols get_current_bar is asked for, in either case; the intervals
ReadKeys == {"NASDAQ:AAPL", "nasdaq:aapl", "NYSE:TSLA"}
ReadIntervals == {"1m", "5m"}
\* get_current_bar(symbol, exchange, interval), whoever holds the lock: the cache
\* is read and the value returned
GetCurrentBar ==
    /\ agg_calls < MaxLockCalls
    /\ agg_calls' = agg_calls + 1
    /\ \E key \in ReadKeys, i \in ReadIntervals : got' = CacheGet(bar_cache, key, i)
    /\ UNCHANGED <<provider, network, pc, rfLocals, rf_cancel, feed, aggregator,
                   callers, history, units, agg_run, agg_last, lock, lock_waiters, tasks,
                   bar_cache>>

\* flush_all_bars: update_one returned; saved_count += 1 and the next builder, or
\* the map is cleared and the call returns
LockFlushSaved ==
    /\ \E p \in LockTasks :
          /\ tasks[p].pc = "fsave"
          /\ \E r \in {FlushNextBar(bars, Saved(storage, tasks[p].io),
                                    [tasks[p] EXCEPT !.saved_count = @ + 1])} :
                TaskRuns(p, r)
    /\ UNCHANGED <<provider, network, pc, rfLocals, rf_cancel, feed, quote_cache,
                   callers, history, units, agg_calls, agg_run, agg_last, lock_waiters, bar_cache, got>>

\* flush_all_bars: update_one raised, before self._bars.clear()
LockFlushSaveFails ==
    /\ \E p \in LockTasks :
          /\ tasks[p].pc = "fsave"
          /\ \E r \in {SaveRaised(bars, storage, tasks[p])} : TaskRuns(p, r)
    /\ UNCHANGED <<provider, network, pc, rfLocals, rf_cancel, feed, quote_cache,
                   callers, history, units, agg_calls, agg_run, agg_last, lock_waiters, bar_cache, got>>

\* --------------------------------------------------- one BarBuilder on its own
\* the builders fed: one-minute builders of the windows [0, 60), [60, 120)
BuilderStarts == {0, 60}
\* ticks just before, at and just after the ends of those windows
FeedTimes == {0 - 1, 0, 59, 60, 119, 120}
\* (price, volume) of a tick; None is a tick without volume
FeedValues == {<<10, 100>>, <<12, 50>>, <<8, 75>>, <<12, None>>}

InitF ==
    /\ InitProgram /\ InitDirect
    /\ \E start \in BuilderStarts :
          /\ builder = BarBuilder("NASDAQ:AAPL", "1m", Naive(start))
          /\ dbuilder = DomainBarBuilder("NASDAQ:AAPL", "1m", Naive(start))
    /\ fed = <<>>
    /\ probe = NoCall /\ codec = NoCall

\* builder.add_tick(tick) on both builders
Feed ==
    /\ Len(fed) < MaxFeed
    /\ \E t \in FeedTimes, v \in FeedValues :
          LET tick == QuoteTick("NASDAQ:AAPL", Naive(t), v[1], v[2])
          IN  /\ builder' = BarBuilderAddTick(builder, tick)
              /\ dbuilder' = DomainAddTick(dbuilder, tick.price, tick.volume, tick.ts)
              /\ fed' = Append(fed, [tick |-> tick,
                                     ret |-> AddTickReturns(builder, tick.ts),
                                     dret |-> AddTickReturns(dbuilder, tick.ts)])
    /\ UNCHANGED <<provider, network, pc, rfLocals, rf_cancel, feed, aggregator,
                   callers, history, direct, probe, codec>>

\* -------------------------------------------------------- bar-start alignment
\* the seconds probed: around the first multiples of every duration, before and
\* after the epoch
ProbeSeconds ==
    UNION {{n * DomainIntervalSeconds(i) + o : n \in (0 - 1)..MaxMultiple, o \in {0 - 1, 0, 1}}
              : i \in DomainIntervals}
ProbeTimestamps == {Naive(x) : x \in ProbeSeconds} \cup {Aware(x) : x \in ProbeSeconds}

InitG ==
    /\ InitProgram /\ InitDirect
    /\ builder = NoCall /\ dbuilder = NoCall /\ fed = <<>> /\ codec = NoCall
    /\ \E ts \in ProbeTimestamps, i \in DomainIntervals :
          probe = [op |-> "args", ts |-> ts, interval |-> i, raised |-> "none",
                   start |-> ts, again |-> ts]

\* what a call with these arguments raises: KeyError for an interval missing from
\* the table, TypeError for an aware timestamp and a fixed-duration interval
Raised(ts, i, table) ==
    IF i \notin table THEN "KeyError"
    ELSE IF GetBarStartRaises(ts, i) THEN "TypeError" ELSE "none"

\* _get_bar_start(ts, interval) of bar_manager.py, then once more on its result
CallGetBarStart ==
    /\ probe.op = "args"
    /\ LET r == Raised(probe.ts, probe.interval, SupportedIntervals)
           start == IF r = "none" THEN GetBarStart(probe.ts, probe.interval) ELSE probe.ts
           r2 == Raised(start, probe.interval, SupportedIntervals)
       IN  probe' = [probe EXCEPT !.op = "_get_bar_start", !.raised = r,
                        !.start = start,
                        !.again = IF r2 = "none" THEN GetBarStart(start, probe.interval)
                                  ELSE start]
    /\ UNCHANGED <<provider, network, pc, rfLocals, rf_cancel, feed, aggregator,
                   callers, history, direct, builder, dbuilder, fed, codec>>

\* get_bar_start(ts, interval) of the domain service, then once more on its result
CallDomainGetBarStart ==
    /\ probe.op = "args"
    /\ LET r == Raised(probe.ts, probe.interval, DomainIntervals)
           start == IF r = "none" THEN DomainGetBarStart(probe.ts, probe.interval)
                    ELSE probe.ts
           r2 == Raised(start, probe.interval, DomainIntervals)
       IN  probe' = [probe EXCEPT !.op = "get_bar_start", !.raised = r,
                        !.start = start,
                        !.again = IF r2 = "none"
                                  THEN DomainGetBarStart(start, probe.interval)
                                  ELSE start]
    /\ UNCHANGED <<provider, network, pc, rfLocals, rf_cancel, feed, aggregator,
                   callers, history, direct, builder, dbuilder, fed, codec>>

\* ------------------------------------------------- the codec and raw chunks
\* the arguments of _create_message: methods and parameters that are plain, that
\* hold the heartbeat marker, and that hold the text of a frame marker
CodecMethods == {<<"a">>, HeartbeatMark, FrameMark \o <<"1">> \o FrameMark}
ParamValues ==
    {JStr(<<"x">>), JNum(7), JList(<<JStr(<<"b">>)>>),
     JStr(HeartbeatMark \o <<"1">>), JStr(FrameMark \o <<"5">> \o FrameMark)}
ParamLists == UNION {[1..n -> ParamValues] : n \in 0..MaxParams}

\* what a chunk is made of: encoded messages, heartbeat frames, and fragments
\* that are no message
MessagePiece(method, params) ==
    [kind |-> "message", body |-> DumpsMessage(method, params),
     text |-> CreateMessage(method, params), msgs |-> <<Message(method, params)>>]
HeartbeatPiece(n) ==
    [kind |-> "heartbeat", body |-> HeartbeatMark \o Decimal(n),
     text |-> Framed(HeartbeatMark \o Decimal(n)), msgs |-> <<>>]
FragmentPiece(body, text) == [kind |-> "fragment", body |-> body, text |-> text, msgs |-> <<>>]
\* [[[...: one list more than the recursion limit
TooDeep == [i \in 1..(RecursionLimit + 1) |-> "["]
Pieces ==
    {MessagePiece(<<"a">>, <<JStr(<<"x">>)>>),
     MessagePiece(<<"a">>, <<JList(<<JStr(<<"b">>)>>), JNum(7)>>),
     MessagePiece(<<"a">>, <<JStr(HeartbeatMark \o <<"1">>)>>),
     MessagePiece(<<"a">>, <<JStr(FrameMark \o <<"5">> \o FrameMark)>>),
     \* an error message; a qsd of the current session with one parameter, and
     \* with a second parameter that is no dict
     MessagePiece(<<"c", "r", "i", "t", "i", "c", "a", "l", "_", "e", "r", "r", "o", "r">>,
                  <<JStr(<<"x">>)>>),
     MessagePiece(<<"q", "s", "d">>, <<JStr(SessionIdText(1))>>),
     MessagePiece(<<"q", "s", "d">>, <<JStr(SessionIdText(1)), JNum(7)>>),
     HeartbeatPiece(1), HeartbeatPiece(12),
     \* not JSON; JSON but no dict; nested too deep; a frame cut short
     FragmentPiece(<<"{", "a">>, Framed(<<"{", "a">>)),
     FragmentPiece(<<"5">>, Framed(<<"5">>)),
     FragmentPiece(TooDeep, Framed(TooDeep)),
     FragmentPiece(<<"{", Quote, "m">>, FrameMark \o <<"1", "6">> \o FrameMark \o <<"{", Quote, "m">>)}
Chunks3 == UNION {[1..n -> Pieces] : n \in 0..MaxPieces}
RECURSIVE ChunkText(_)
ChunkText(ps) == IF ps = <<>> THEN <<>> ELSE Head(ps).text \o ChunkText(Tail(ps))

CodecArgs(op, ps, method, params, room) ==
    [op |-> op, pieces |-> ps, data_str |-> ChunkText(ps), method |-> method,
     params |-> params, room |-> room, frame |-> <<>>, raised |-> "none",
     messages |-> <<>>, echoed |-> <<>>, dispatched |-> <<>>]

\* the feed was started and run_forever waits for a chunk of the first transport
Receiving ==
    /\ ws = 1 /\ session_id = 1 /\ subscriptions = <<>> /\ running = TRUE
    /\ reconnect_delay = FloorDelay
    /\ tstate = [t \in Transports |-> IF t = 1 THEN "open" ELSE "unused"]
    /\ sent = <<Frame(1, "quote_create_session", 1, NoKey, 1),
                Frame(1, "quote_set_fields", 1, NoKey, 1)>>
    /\ sid_gen = 1
    /\ pc = [p \in Procs |-> IF p = "rf" THEN "recv" ELSE "idle"]
    /\ rf_resub = <<>> /\ rf_chunk = <<>> /\ rf_iter = 1 /\ rf_cancel = FALSE
    /\ state_running = TRUE /\ ws_task = TRUE /\ InitCommands
    /\ bars = EmptyDict /\ bars_order = <<>> /\ storage = {} /\ quote_cache = [k \in Keys |-> 0]
    /\ api_calls = 0 /\ last_call = [op |-> "none", key |-> NoKey, res |-> "none"]
    /\ start_raised = FALSE /\ unsub = NoUnsub /\ sync = NoSync /\ api_run = NoApi
    /\ recon = NoRecon /\ streak = 0 /\ conn_fails = 0 /\ stale_dropped = FALSE

InitC ==
    /\ Receiving /\ InitDirect
    /\ builder = NoCall /\ dbuilder = NoCall /\ fed = <<>> /\ probe = NoCall
    /\ \E room \in NestRooms :
          \/ \E ps \in Chunks3 : codec = CodecArgs("chunk", ps, <<>>, <<>>, room)
          \/ \E method \in CodecMethods, params \in ParamLists :
                codec = CodecArgs("encode", <<>>, method, params, room)

\* _parse_messages(_create_message(method, params))
CallCreateMessage ==
    /\ codec.op = "encode"
    /\ \E frame \in {CreateMessage(codec.method, codec.params)} :
          \E r \in {ParseMessages(frame, codec.room)} :
             codec' = [codec EXCEPT !.op = "_create_message", !.frame = frame,
                          !.raised = r.raised, !.messages = r.messages]
    /\ UNCHANGED <<provider, network, pc, rfLocals, rf_cancel, feed, aggregator,
                   callers, history, direct, builder, dbuilder, fed, probe>>

\* _parse_messages(data_str)
CallParseMessages ==
    /\ codec.op = "chunk"
    /\ \E r \in {ParseMessages(codec.data_str, codec.room)} :
          codec' = [codec EXCEPT !.op = "_parse_messages",
                       !.raised = r.raised, !.messages = r.messages]
    /\ UNCHANGED <<provider, network, pc, rfLocals, rf_cancel, feed, aggregator,
                   callers, history, direct, builder, dbuilder, fed, probe>>

\* lines 242-243 on the chunk: decode and dispatch; an exception goes to
\* run_forever's except clause
RfDecoded(r) ==
    /\ RfApply(IF r.raised = "none" THEN [RfState EXCEPT !.pc = "recv"]
               ELSE RfExcept(RfState))
    /\ codec' = [codec EXCEPT !.op = "recv", !.echoed = r.echoed,
                    !.raised = r.raised, !.messages = r.messages,
                    !.dispatched = r.dispatched]

\* the async-for of run_forever takes the chunk as the text it is: break if no
\* longer running; a chunk with a heartbeat is answered first, and the task
\* waits in `await self._ws.send(...)` (line 239) with nothing decoded yet; any
\* other chunk is decoded and dispatched at once. The frames echoed are kept in
\* codec.echoed.
RfRecvRaw ==
    /\ RfAt("recv")
    /\ tstate[rf_iter] = "open"
    /\ codec.op = "chunk"
    /\ \E r \in {RecvBody(codec.data_str, codec.room)} :
           IF ~running
           THEN /\ RfApply(RfLoop(RfState, running))
                /\ codec' = [codec EXCEPT !.op = "recv"]
           ELSE IF r.echoed # <<>>
           THEN IF CanSend
                THEN /\ RfApply([RfState EXCEPT !.pc = "echo"])
                     /\ codec' = [codec EXCEPT !.op = "echo", !.echoed = r.echoed]
                ELSE /\ RfApply(RfExcept(RfState))
                     /\ codec' = [codec EXCEPT !.op = "recv", !.raised = SendError]
           ELSE RfDecoded(r)
    /\ UNCHANGED <<session_id, subscriptions, running, tstate, sid_gen, rf_cancel,
                   feed, storage, callers, direct, builder, dbuilder, fed, probe>>

\* send() of the echo returned: the chunk is decoded and dispatched
RfEchoed ==
    /\ RfAt("echo")
    /\ codec.op = "echo"
    /\ \E r \in {RecvBody(codec.data_str, codec.room)} : RfDecoded(r)
    /\ UNCHANGED <<session_id, subscriptions, running, tstate, sid_gen, rf_cancel,
                   feed, storage, callers, direct, builder, dbuilder, fed, probe>>

\* chunks whose handling the codec decides: an error message, a qsd of the first
\* session with a second parameter that is no dict, a JSON fragment that is no dict
TextChunks ==
    {<<MessagePiece(<<"c", "r", "i", "t", "i", "c", "a", "l", "_", "e", "r", "r", "o", "r">>,
                    <<JStr(<<"x">>)>>)>>,
     <<MessagePiece(<<"q", "s", "d">>, <<JStr(SessionIdText(1)), JNum(7)>>)>>,
     <<FragmentPiece(<<"5">>, Framed(<<"5">>))>>}
\* the async-for of run_forever receives such a chunk on the open transport:
\* break if no longer running, else decode and dispatch; an exception of the body
\* goes to `except Exception`, which sets _ws = None and closes nothing
RfRecvText ==
    /\ RfAt("recv")
    /\ tstate[rf_iter] = "open"
    /\ \E ps \in TextChunks, room \in NestRooms : \E r \in {RecvBody(ChunkText(ps), room)} :
           RfApply(IF ~running THEN RfLoop(RfState, running)
                   ELSE IF r.raised = "none" THEN RfState
                   ELSE RfExcept(RfState))
    /\ UNCHANGED <<session_id, subscriptions, running, tstate, sid_gen, rf_cancel,
                   feed, storage, callers, direct, units>>

\* ------------------------------------------------------------ specifications
StartNext == StartCmd \/ StartOpenOK \/ StartOpenFail \/ StartSetFields \/ StartReturn
RfCore ==
    \/ RfBegin \/ RfOpenOK \/ RfSetFields \/ RfConnected \/ RfResubNext
    \/ RfRecvError \/ RfRecvEnd \/ RfSleepDone
RfChunk == RfRecvChunk \/ RfCacheDone \/ RfCacheFail
UnsubNext ==
    UnsubscribeCmd \/ UnsubscribeSent \/ UnsubscribeDeleted \/ UnsubscribeDeleteFails
DiscNext == DiscBegin \/ DiscClosed
StopNext == StopCmd \/ StopClosed \/ StopJoined

\* the connection life cycle: connect, receive, close, back off, reconnect, disconnect
\* (nothing subscribes here, so the resubscription loop has no step of its own)
NextB ==
    \/ StartNext
    \/ RfBegin \/ RfOpenOK \/ RfOpenFail \/ RfSetFields \/ RfConnected
    \/ RfRecvChunk \/ RfRecvError \/ RfRecvEnd \/ RfSleepDone
    \/ DiscNext \/ TransportClose
SpecB == Init /\ [][NextB]_vars
\* the outbound messages: the life cycle without connect failures, with subscribe
\* and unsubscribe called at any moment
NextM ==
    \/ StartNext \/ RfCore \/ Subscribe \/ SubscribeReturns \/ Unsubscribe
    \/ UnsubscribeReturns \/ DiscNext \/ TransportClose
SpecM == Init /\ [][NextM]_vars
\* the inbound messages: chunks dispatched to the callbacks of subscribed keys
NextD ==
    \/ StartNext \/ RfCore \/ RfChunk \/ Subscribe \/ SubscribeCmd \/ SubscribeReturns
    \/ UnsubNext \/ TransportClose
SpecD == Init /\ [][NextD]_vars
\* one BarBuilder of each module fed ticks
NextF == Feed
SpecF == InitF /\ [][NextF]_vars
\* one alignment call on drawn arguments
NextG == CallGetBarStart \/ CallDomainGetBarStart
SpecG == InitG /\ [][NextG]_vars
\* the codec called on drawn arguments, and the receive loop on a drawn chunk
NextC == CallCreateMessage \/ CallParseMessages \/ RfRecvRaw \/ RfEchoed
SpecC == InitC /\ [][NextC]_vars
\* a BarManager fed ticks and flushed by direct calls, every awaited update_one
\* and Cache.set returning or raising, while the sync handler writes the same
\* collection
NextA ==
    \/ AggAddTick \/ AggFlush \/ AggAddTickSaved \/ AggAddTickCached \/ AggFlushSaved
    \/ AggAddTickSaveFails \/ AggAddTickCacheFails \/ AggFlushSaveFails
    \/ SyncBuildsRecords \/ SyncUpsertMany
SpecA == Init /\ [][NextA]_vars
\* a BarManager called by concurrent tasks, one await at a time
NextL ==
    \/ LockCallAddTick \/ LockCallFlush \/ LockWake
    \/ LockAddTickSaved \/ LockAddTickCached \/ LockFlushSaved \/ GetCurrentBar
    \/ LockAddTickSaveFails \/ LockAddTickCacheFails \/ LockFlushSaveFails
SpecL == Init /\ [][NextL]_vars
\* the feed stopped by the Stop handler while it receives
NextS ==
    \/ StartNext \/ RfCore \/ RfChunk \/ RfCancelled \/ Subscribe \/ SubscribeReturns
    \/ StopNext
    \/ TransportClose
SpecS == Init /\ [][NextS]_vars
\* the transports: the life cycle with chunks whose handling may raise
NextT ==
    \/ StartNext
    \/ RfBegin \/ RfOpenOK \/ RfOpenFail \/ RfSetFields \/ RfConnected
    \/ RfRecvText \/ RfRecvError \/ RfRecvEnd \/ RfSleepDone
    \/ TransportClose
SpecT == Init /\ [][NextT]_vars
\* the Start and Stop handlers run by concurrent tasks
NextH ==
    \/ HStartCmd \/ HStartOpenOK \/ HStartOpenFail \/ HStartSetFields \/ HStartReturn
    \/ HStopCmd \/ HStopClosed \/ HStopJoined
    \/ RfTaskBegin \/ RfTaskOpenOK \/ RfTaskOpenFail \/ RfTaskSetFields \/ RfTaskConnected
    \/ RfTaskClosed \/ RfTaskSleepDone \/ RfTaskCancelled \/ RfTaskExits
    \/ TransportClose
SpecH == Init /\ [][NextH]_vars

\* ------------------------------------------------------------------ claims
\* run_forever is in the receive loop of the transport its last reconnect opened
RfReceivesAfterReconnect ==
    pc["rf"] \in {"recv", "spin", "cb_cache"} /\ recon.t # 0 /\ rf_iter = recon.t

\* C1: when run_forever, after a reconnect, is where it accepts inbound chunks of
\* the new transport, a quote_add_symbols carrying the session id generated by
\* that reconnect has been sent on the new transport for every key that was in
\* the subscriptions map when connect() returned.
C1_ResubscribedBeforeReceiving ==
    RfReceivesAfterReconnect =>
        \A k \in recon.keys : \E i \in 1..Len(sent) :
            sent[i] = Frame(recon.t, "quote_add_symbols", recon.sid, k, recon.sid)
\* run_forever receives on a reconnected, open transport with both keys resubscribed
C1_Witness ==
    /\ RfReceivesAfterReconnect /\ tstate[rf_iter] = "open"
    /\ recon.keys = Keys

\* C2: every outbound message carries the newest session id that had been
\* generated when it was sent, never an earlier one.
C2_NoEarlierSessionId ==
    \A i \in 1..Len(sent) : sent[i].sid = sent[i].gen
\* after a reconnect, add and remove messages were sent in the second session
C2_Witness ==
    /\ \E i \in 1..Len(sent) : sent[i].m = "quote_add_symbols" /\ sent[i].gen = 2
    /\ \E i \in 1..Len(sent) : sent[i].m = "quote_remove_symbols" /\ sent[i].gen = 2

\* C3: a callback is invoked, a cache entry written and an entry of the builder
\* map created only for an update that carries the current session id; a chunk
\* whose updates are all discarded changes nothing. (The only other change of
\* the cache is the deletion of a key's quote by the Unsubscribe handler.)
C3_StaleDiscarded ==
    [][/\ (pc'["rf"] = "cb_cache" /\ rf_chunk' # rf_chunk)
             => Head(rf_chunk').sid = session_id
       /\ \A k \in Keys : quote_cache'[k] # quote_cache[k]
             => \/ (pc["rf"] = "cb_cache" /\ Head(rf_chunk).n = k
                       /\ Head(rf_chunk).sid = session_id)
                \/ (unsub.pc = "delete" /\ unsub.key = k /\ quote_cache'[k] = 0)
       /\ \A k \in DOMAIN bars' : (k \notin DOMAIN bars \/ bars'[k] # bars[k])
             => (pc["rf"] = "cb_cache" /\ Head(rf_chunk).n = k
                   /\ Head(rf_chunk).sid = session_id)
       /\ (pc["rf"] = "recv" /\ pc'["rf"] = "recv" /\ ~stale_dropped /\ stale_dropped')
             => UNCHANGED <<provider, network, aggregator>>]_vars
\* an update of the session before the reconnect, for a subscribed key and with a
\* price, has just been discarded
C3_Witness ==
    stale_dropped /\ pc["rf"] = "recv" /\ recon.t = rf_iter /\ recon.keys # {}

\* run_forever leaves the receive loop of its transport
RfLeavesRecv == pc["rf"] = "recv" /\ ~rf_cancel /\ pc'["rf"] # "recv"

\* C4: while the running flag is true, whenever run_forever sees its transport
\* closed (the receive raises, or the iteration simply ends) it clears _ws and
\* starts the backoff sleep that precedes the next connect().
C4_CloseLeadsToBackoff ==
    [][(RfLeavesRecv /\ running /\ tstate[rf_iter] # "open" /\ pc["disc"] = "idle")
          => (ws' = 0 /\ pc'["rf"] = "sleep")]_vars
\* run_forever iterates again and again over a closed transport that is still
\* installed, with the running flag true and no disconnect() in the picture
C4_Witness ==
    pc["rf"] = "spin" /\ running /\ ws = rf_iter /\ pc["disc"] = "idle"

\* C5, as the code has it: the delay always lies between the floor and the
\* ceiling, and the i-th backoff sleep in a row since the last successful
\* connect() (i = 0, 1, ...), whatever caused it, lasts min(floor * 2^i, ceiling).
C5_BackoffDoubles ==
    /\ FloorDelay <= reconnect_delay /\ reconnect_delay <= MaxReconnectDelay
    /\ pc["rf"] = "sleep"
          => reconnect_delay = Min(FloorDelay * 2^(streak - 1), MaxReconnectDelay)
\* the backoff has reached the ceiling after a row of failed connect attempts
C5_Witness ==
    /\ pc["rf"] = "sleep" /\ streak = MaxStreak /\ conn_fails >= 3
    /\ reconnect_delay = MaxReconnectDelay
\* C5 as stated: the sleep after the k-th failed connect attempt in a row lasts
\* min(floor * 2^(k-1), ceiling)
C5_AsStated ==
    (pc["rf"] = "sleep" /\ conn_fails >= 1)
        => reconnect_delay = Min(FloorDelay * 2^(conn_fails - 1), MaxReconnectDelay)

\* connect() returns to its caller: run_forever or the Start handler
ConnectReturns ==
    \/ pc["rf"] = "conn2" /\ ~rf_cancel /\ pc'["rf"] # "conn2"
    \/ pc["start"] = "conn2" /\ pc'["start"] # "conn2"
\* C6: every connect() that returns normally leaves the reconnect delay at the
\* floor, whatever the delay was before.
C6_ConnectResetsDelay == [][ConnectReturns => reconnect_delay' = FloorDelay]_vars
\* run_forever reconnected after failed attempts had raised the delay, and is
\* receiving with the delay back at the floor
C6_Witness ==
    /\ pc["rf"] = "recv" /\ recon.t = rf_iter
    /\ recon.was >= 4 * FloorDelay /\ reconnect_delay = FloorDelay

\* C8: once disconnect() has returned and run_forever has exited, _ws is None
\* and is_connected() is false.
C8_NoTransportAfterDisconnect ==
    (pc["disc"] = "returned" /\ pc["rf"] = "done") => (ws = 0 /\ ~IsConnected)
\* disconnect() has returned, run_forever has exited, and the client holds an
\* open transport
C8_Witness == pc["disc"] = "returned" /\ pc["rf"] = "done" /\ IsConnected

\* C9: once disconnect() has set the running flag to false, run_forever attempts
\* no connect() and starts no backoff sleep.
C9_NoWorkAfterStop ==
    [][pc["disc"] # "idle"
          => ~(pc'["rf"] \in {"opening", "sleep"} /\ pc'["rf"] # pc["rf"])]_vars
\* disconnect() has returned, and run_forever is in connect() with the flag true
C9_Witness == pc["disc"] = "returned" /\ pc["rf"] = "opening" /\ running

\* the key of the call the step makes: of the call now suspended, or of the call
\* that ended at once
CalledKey == IF api_run' = NoApi THEN last_call'.key ELSE api_run'.key
\* subscribe() is called: it is suspended in ws.send, or it raised at once
SubscribeCalled ==
    /\ api_calls' = api_calls + 1 /\ unsub' = unsub
    /\ IF api_run' = NoApi THEN last_call'.op = "subscribe" ELSE api_run'.op = "subscribe"
\* C10: subscribe() on a client that is not connected raises a connection-state
\* error, sends nothing and leaves the subscriptions map as it was.
C10_SubscribeWhileDown ==
    [][(SubscribeCalled /\ ~IsConnected /\ pc["start"] = "idle")
          => /\ api_run' = NoApi
             /\ last_call'.res \in {"RuntimeError", "ConnectionClosed"}
             /\ sent' = sent
             /\ subscriptions' = subscriptions]_vars
\* the only subscribe() ever called raised, and its key is in the map
C10_Witness ==
    /\ api_calls = 1 /\ last_call.op = "subscribe" /\ last_call.res = "ConnectionClosed"
    /\ subscriptions = <<last_call.key>>

\* disconnect() returns: called directly, or by the Stop handler
DisconnectReturns ==
    \/ pc["disc"] # "returned" /\ pc'["disc"] = "returned"
    \/ pc["stop"] # "join" /\ pc'["stop"] = "join"
\* a step of run_forever: its reconnect path included
RfSteps == pc'["rf"] # pc["rf"]
\* C26: when disconnect() returns, called directly or by the Stop handler, the
\* subscriptions map is empty; no step of run_forever, its reconnect included,
\* changes the map.
C26_SubscriptionsLifecycle ==
    [][/\ DisconnectReturns => subscriptions' = <<>>
       /\ RfSteps => subscriptions' = subscriptions]_vars
\* disconnect() has returned after run_forever had reconnected with a key in the
\* map, and the key is still there
C26_Witness ==
    /\ pc["disc"] = "returned" /\ ws = 0
    /\ recon.t # 0 /\ recon.keys # {}
    /\ recon.keys \subseteq Range(subscriptions)

\* the StartQuoteFeed command that called connect() ends: it returns or raises
StartEnds == pc["start"] # "idle" /\ pc'["start"] = "idle"
\* C27: a StartQuoteFeed command that calls connect() never ends with an
\* exception, whatever the transport does meanwhile: it returns with the feed
\* running and the run_forever task created, which reconnects after a failure.
C27_StartNeverRaises ==
    [][StartEnds => (~start_raised' /\ state_running' /\ RfAlive')]_vars
\* the initial connect failed: the command ended with the exception, the feed is
\* not running and no run_forever task exists to reconnect
C27_Witness ==
    /\ start_raised /\ pc["start"] = "idle"
    /\ ~state_running /\ ~ws_task /\ pc["rf"] = "idle" /\ ws = 0

\* the frames written to transport t, in the order of their send() calls
SentOn(t) == SelectSeq(sent, LAMBDA f : f.t = t)
\* C28: on every transport the first frame sent is quote_create_session and the
\* second is quote_set_fields, both with the session id generated for that
\* transport; so no quote_add_symbols or quote_remove_symbols precedes them,
\* whenever subscribe or unsubscribe is called.
C28_SessionSetupFirst ==
    \A t \in Transports :
        /\ Len(SentOn(t)) >= 1
              => /\ SentOn(t)[1].m = "quote_create_session"
                 /\ SentOn(t)[1].sid = SentOn(t)[1].gen
        /\ Len(SentOn(t)) >= 2
              => /\ SentOn(t)[2].m = "quote_set_fields"
                 /\ SentOn(t)[2].sid = SentOn(t)[1].sid
\* a subscribe() that ran while connect() was suspended in its first send had its
\* quote_add_symbols written between the two messages of connect()
C28_Witness ==
    \E t \in Transports :
        /\ Len(SentOn(t)) >= 3
        /\ SentOn(t)[1].m = "quote_create_session"
        /\ SentOn(t)[2].m = "quote_add_symbols"
        /\ SentOn(t)[3].m = "quote_set_fields"

\* the Stop handler returns {"status": "stopped"}
StopReturns == pc["stop"] = "join" /\ pc'["stop"] = "idle"
\* C7: when Stop returns "stopped" the run_forever task has terminated and the
\* builder map is empty, every builder having been upserted.
C7_StoppedMeansFlushed ==
    [][StopReturns => (~RfAlive' /\ bars' = ClearedBars)]_vars
\* the feed is stopped, its task gone, and the builder map holds an entry
C7_Witness ==
    /\ ws_task /\ ~state_running /\ pc["stop"] = "idle" /\ pc["start"] = "idle"
    /\ ~RfAlive /\ bars # ClearedBars

\* unsubscribe() is called: it is suspended in ws.send, or it ended at once
UnsubscribeCalled ==
    /\ api_calls' = api_calls + 1 /\ unsub' = unsub
    /\ IF api_run' = NoApi THEN last_call'.op = "unsubscribe"
       ELSE api_run'.op = "unsubscribe"
\* the unsubscribe() suspended in ws.send returns
UnsubscribeResumed == api_run.op = "unsubscribe" /\ api_run' = NoApi
\* C11: unsubscribe() of a subscribed key on a connected client removes the key
\* and sends exactly one quote_remove_symbols frame; for a key that is not
\* subscribed, or on a client that is not connected, it raises nothing, sends
\* nothing and leaves the subscriptions map as it was.
C11_UnsubscribeContract ==
    [][/\ (UnsubscribeCalled /\ pc["start"] = "idle")
             => IF IsConnected /\ CalledKey \in Range(subscriptions)
                THEN /\ api_run'.pc = "send"
                     /\ subscriptions' = DictDel(subscriptions, CalledKey)
                     /\ sent' = Append(sent, Frame(ws, "quote_remove_symbols", session_id,
                                                   CalledKey, sid_gen))
                ELSE /\ api_run' = NoApi /\ last_call'.res = "ok"
                     /\ sent' = sent
                     /\ subscriptions' = subscriptions
       /\ UnsubscribeResumed
             => /\ last_call'.res = "ok" /\ last_call'.key = api_run.key
                /\ sent' = sent /\ subscriptions' = subscriptions]_vars
\* a key was subscribed, the unsubscribe() that followed raised, and the key is
\* gone from the map
C11_Witness ==
    /\ api_calls = 2 /\ last_call.op = "unsubscribe"
    /\ last_call.res = "ConnectionClosed" /\ subscriptions = <<>>

\* the callback of the message in flight raised and _handle_quote_update continued
CallbackRaised ==
    /\ RfAt("cb_cache") /\ pc'["rf"] # "cancelled"
    /\ (pc'["rf"] # pc["rf"] \/ rf_chunk' # rf_chunk)
\* C12: a callback that raises does not break the receive loop: the transport
\* stays installed and iterated, no backoff starts, nothing is sent, and the
\* loop goes on with the rest of the chunk (the messages skipped are exactly
\* those that reach no callback) or, the chunk done, waits for the next one.
C12_CallbackErrorContained ==
    [][CallbackRaised
          => LET rest == Tail(rf_chunk)
                 k == Len(rest) - Len(rf_chunk')
             IN  /\ ws' = ws /\ ws' # 0 /\ rf_iter' = rf_iter
                 /\ reconnect_delay' = reconnect_delay /\ streak' = streak
                 /\ sent' = sent
                 /\ k >= 0 /\ rf_chunk' = SubSeq(rest, k + 1, Len(rest))
                 /\ \A j \in 1..k : ~Suspends(rest[j])
                 /\ IF rf_chunk' = <<>>
                    THEN pc'["rf"] = "recv"
                    ELSE pc'["rf"] = "cb_cache" /\ Suspends(Head(rf_chunk'))]_vars
\* add_tick raised inside a callback, no reconnect has happened since the feed
\* started, and the loop is in the callback of a further message on the same
\* open transport
C12_Witness ==
    /\ \E k \in DOMAIN bars : bars[k] = EmptyDict
    /\ sid_gen = 1 /\ streak = 0 /\ reconnect_delay = FloorDelay
    /\ pc["rf"] = "cb_cache" /\ ws = rf_iter /\ tstate[ws] = "open"

\* ---------------------------------------------------------- the aggregator
\* a direct add_tick / flush_all_bars call returned (or raised)
AddTickEnds == agg_last'.seq # agg_last.seq /\ agg_last'.op = "add_tick"
FlushEnds == agg_last'.seq # agg_last.seq /\ agg_last'.op = "flush_all_bars"

\* C13: per (symbol, interval), no bar a call delivers to storage starts earlier
\* than a bar of that symbol and interval delivered before, whatever the order
\* of the tick timestamps and wherever flush_all_bars is called.
C13_BarsDeliveredInOrder ==
    \A u \in agg_run.upserted : \A d \in agg_run.delivered :
        (d.key = u.key /\ d.interval = u.interval) => d.bar_start.s <= u.bar_start.s
\* the last call delivered a bar of a window that starts before one an earlier
\* call delivered, whose row is stored
C13_Witness ==
    /\ tasks[Caller].pc = "idle"
    /\ \E u \in agg_last.upserted : \E d \in agg_run.delivered :
          /\ d.key = u.key /\ d.interval = u.interval /\ d.bar_start.s > u.bar_start.s
          /\ ToMongo(d) \in Docs(storage) /\ ToMongo(u) \in Docs(storage)

\* the map holds a builder for the tick's key and interval i
HasBuilder(b, tick, i) == tick.key \in DOMAIN b /\ i \in DOMAIN b[tick.key]
\* the tick of add_tick is at or after the end of the builder that (key, i) holds
RollsOver(b, tick, i) ==
    HasBuilder(b, tick, i) /\ tick.ts.s >= b[tick.key][i].bar_end.s
\* the caller's task is resumed from the await of update_one, which returned
SaveReturns ==
    /\ tasks[Caller].pc \in {"save", "fsave"} /\ tasks'[Caller] # tasks[Caller]
    /\ ~tasks'[Caller].raised
\* the caller's task is resumed from the await of update_one, which raised
SaveRaises ==
    /\ tasks[Caller].pc \in {"save", "fsave"}
    /\ tasks'[Caller].pc = "idle" /\ tasks'[Caller].raised
\* the document update_one was awaited with
SavedDoc == ToMongo(ToAggregatedBar(tasks[Caller].io.bar))
\* the add_tick that ended upserted, for interval i, the bar of the builder it
\* found and no other, and the builder is now one of the tick's aligned window
\* that holds the tick alone
RolledOver(i) ==
    LET tick == agg_last'.tick
        old == agg_last'.before[tick.key][i]
        new == bars'[tick.key][i]
    IN  /\ {u \in agg_last'.upserted : u.interval = i} = {ToAggregatedBar(old)}
        /\ new.bar_start = GetBarStart(tick.ts, i)
        /\ new.bar_start.s <= tick.ts.s /\ tick.ts.s < new.bar_end.s
        /\ new.bar_start.s >= old.bar_end.s
        /\ new.tick_count = 1
        /\ new.open = tick.price /\ new.close = tick.price
\* the statement of the rollover for every add_tick, however it ends: a tick at
\* or after the live builder's bar_end has the old builder's bar upserted, and no
\* other, and the builder replaced by one that holds the tick alone
C14_AsStated ==
    [][AddTickEnds
          => \A n \in 1..Len(DefaultIntervals) :
                RollsOver(agg_last'.before, agg_last'.tick, DefaultIntervals[n])
                    => RolledOver(DefaultIntervals[n])]_vars
\* C14: add_tick with a tick at or after the live builder's bar_end awaits the
\* upsert of the old builder's bar. When update_one returns the bar is a row of
\* the collection and the builder is replaced by one that starts at the tick's
\* aligned window and holds that tick alone; an add_tick that returns has
\* upserted exactly one bar for each such (symbol, interval), the old builder's.
\* When update_one raises, add_tick raises, nothing is written and the old
\* builder stays in the map as it was.
C14_Rollover ==
    [][/\ (SaveReturns /\ tasks[Caller].op = "add_tick")
          => LET tick == tasks[Caller].tick
                 old == tasks[Caller].io.bar
                 new == bars'[tick.key][old.interval]
             IN  /\ SavedDoc \in Docs(storage')
                 /\ bars[tick.key][old.interval] = old
                 /\ tick.ts.s >= old.bar_end.s
                 /\ new.bar_start = GetBarStart(tick.ts, old.interval)
                 /\ new.tick_count = 1 /\ new.close = tick.price
       /\ (SaveRaises /\ tasks[Caller].op = "add_tick")
          => /\ bars' = bars /\ storage' = storage
             /\ AddTickEnds /\ agg_last'.raised
             /\ \A u \in agg_last'.upserted :
                   u.interval # tasks[Caller].io.bar.interval
       /\ (AddTickEnds /\ ~agg_last'.raised)
          => \A n \in 1..Len(DefaultIntervals) :
                RollsOver(agg_last'.before, agg_last'.tick, DefaultIntervals[n])
                    => RolledOver(DefaultIntervals[n])]_vars
\* the last add_tick returned: it rolled the five-minute builder over and
\* upserted its bar
C14_Witness ==
    /\ agg_last.op = "add_tick" /\ ~agg_last.raised /\ agg_last.tick.ts.s = 330
    /\ \E u \in agg_last.upserted : u.interval = "5m" /\ u.bar_start.s = 0
    /\ bars[agg_last.tick.key]["5m"].bar_start.s = 300
    /\ bars[agg_last.tick.key]["5m"].tick_count = 1

\* the flush that ended upserted every non-empty builder it found, once, left
\* the map empty and returned their number; with none it returned 0 and wrote
\* nothing
FlushedAll ==
    LET full == {b \in Builders(agg_last'.before) : b.tick_count > 0}
    IN  /\ agg_last'.upserted = {ToAggregatedBar(b) : b \in full}
        /\ DOMAIN bars' = {}
        /\ agg_last'.ret = Cardinality(full)
        /\ full = {} => agg_last'.ret = 0 /\ storage' = storage
\* the statement of the flush for every flush_all_bars, however it ends
C15_AsStated ==
    [][FlushEnds => FlushedAll]_vars
\* C15: flush_all_bars awaits one update_one for every non-empty builder. Each
\* that returns has made the builder's bar a row and touched no row of another
\* key; when all have returned the call has upserted every non-empty builder
\* once, the map is empty and the number of bars is returned; with no builder
\* it returns 0 and writes nothing. When an update_one raises the call raises
\* with the map not cleared and nothing written by that update.
C15_FlushAll ==
    [][/\ (SaveReturns /\ tasks[Caller].op = "flush_all_bars")
          => /\ SavedDoc \in Docs(storage')
             /\ \A d \in storage' : d \in storage \/ Docs({d}) = {SavedDoc}
             /\ \A d \in storage : d \in storage' \/ SameBarKey(d, SavedDoc)
       /\ (SaveRaises /\ tasks[Caller].op = "flush_all_bars")
          => /\ bars' = bars /\ storage' = storage
             /\ tasks[Caller].io.bar \in Builders(bars')
             /\ FlushEnds /\ agg_last'.raised
       /\ (FlushEnds /\ ~agg_last'.raised) => FlushedAll]_vars
\* the last call was a flush that returned, having upserted the builders of two
\* symbols
C15_Witness ==
    /\ agg_last.op = "flush_all_bars" /\ ~agg_last.raised
    /\ agg_last.ret = 2 * Len(DefaultIntervals)
    /\ Cardinality({u.key : u \in agg_last.upserted}) = 2
    /\ bars = EmptyDict

\* C16: no bar that is upserted and no bar that is published to the cache has a
\* tick_count of 0.
C16_NoEmptyBarLeaves ==
    /\ \A u \in agg_run.upserted : u.tick_count >= 1
    /\ \A j \in 1..Len(agg_run.published) : agg_run.published[j].tick_count >= 1
    /\ \A t \in Range(tasks) : t.io.call # "none" => t.io.bar.tick_count >= 1
\* the last add_tick carried a late tick, before the start of the one-minute
\* builder that was published, and rolled nothing over
C16_Witness ==
    /\ agg_last.op = "add_tick" /\ Len(agg_last.published) = Len(DefaultIntervals)
    /\ agg_last.tick.ts.s < agg_last.published[1].bar_start.s
    /\ agg_last.upserted = {}

\* C19: every builder of the map has accepted a tick, and its fields satisfy
\* low <= open <= high, low <= close <= high, volume >= 0 and tick_count >= 1.
C19_BuilderInvariants ==
    \A b \in Builders(bars) :
        /\ b.tick_count >= 1
        /\ b.open # None /\ b.high # None /\ b.low # None /\ b.close # None
        /\ b.low <= b.open /\ b.open <= b.high
        /\ b.low <= b.close /\ b.close <= b.high
        /\ b.volume >= 0
\* a builder holds several ticks whose prices differ, the higher one first
C19_Witness ==
    \E b \in Builders(bars) :
        b.tick_count >= 3 /\ b.low < b.high /\ b.open = b.high /\ b.close = b.low

\* C21: when the update_one of a bar returns, the collection holds exactly one
\* row for the bar's (symbol, exchange, interval, bar_start); the row carries the
\* bar's OHLCV fields, and its created_at is the one of the row that was there
\* before the update, whoever wrote it, or the created_at the bar's document was
\* built with if there was none.
C21_IdempotentFlush ==
    [][SaveReturns
          => LET before == Matching(storage, SavedDoc)
                 after == Matching(storage', SavedDoc)
             IN  /\ Cardinality(after) = 1
                 /\ Docs(after) = {SavedDoc}
                 /\ \A d \in after :
                       /\ \A o \in before : d.created_at = o.created_at
                       /\ before = {} => d.created_at = tasks[Caller].io.now]_vars
\* the last call was a flush that saved a bar whose row an earlier call had
\* inserted with another close: the row has the new close and the old created_at
C21_Witness ==
    /\ agg_last.op = "flush_all_bars"
    /\ \E o \in agg_last.replaced : \E d \in storage : \E u \in agg_last.upserted :
          /\ SameBarKey(d, o) /\ SameBarKey(d, ToMongo(u))
          /\ d.close = u.close /\ d.close # o.close
          /\ d.created_at = o.created_at /\ d.created_at < agg_calls

\* the tick is stamped before the start of that builder
IsLate(b, tick, i) == HasBuilder(b, tick, i) /\ tick.ts.s < b[tick.key][i].bar_start.s
\* C31: every add_tick changes, per configured interval, exactly one builder,
\* that of the tick's symbol, which afterwards is the builder of the tick's
\* aligned window and counts the tick once; except that for a tick stamped
\* before the live builder's bar_start the builder is unchanged and nothing is
\* written to storage for that symbol and interval. No builder of another
\* symbol changes.
C31_TickConsumedOnce ==
    [][AddTickEnds
          => LET tick == agg_last'.tick
                 before == agg_last'.before
             IN  /\ \A k \in DOMAIN before \ {tick.key} :
                       k \in DOMAIN bars' /\ bars'[k] = before[k]
                 /\ DOMAIN bars' = DOMAIN before \cup {tick.key}
                 /\ \A n \in 1..Len(DefaultIntervals) :
                       LET i == DefaultIntervals[n]
                           new == bars'[tick.key][i]
                       IN  IF IsLate(before, tick, i)
                           THEN /\ new = before[tick.key][i]
                                /\ {u \in agg_last'.upserted : u.interval = i} = {}
                           ELSE /\ HasBuilder(bars', tick, i)
                                /\ new.bar_start = GetBarStart(tick.ts, i)
                                /\ new.bar_start.s <= tick.ts.s /\ tick.ts.s < new.bar_end.s
                                /\ new.tick_count
                                      = 1 + (IF HasBuilder(before, tick, i)
                                                  /\ before[tick.key][i].bar_start = new.bar_start
                                             THEN before[tick.key][i].tick_count ELSE 0)
                                /\ new.close = tick.price]_vars
\* the first add_tick carried a tick stamped like the live feed's, with a
\* tzinfo: the call raised, and the map holds the symbol's entry with no builder
\* in it
C31_Witness ==
    /\ agg_last.op = "add_tick" /\ agg_last.raised /\ agg_last.seq = 1
    /\ agg_last.tick.ts = Aware(70)
    /\ agg_last.tick.key \in DOMAIN bars /\ bars[agg_last.tick.key] = EmptyDict

\* the bar saved aggregates the ticks of the stored row too: same open, no lower
\* high, no higher low, no smaller volume
Extends(bar, row) ==
    /\ bar.open = row.open /\ bar.high >= row.high /\ bar.low <= row.low
    /\ bar.volume >= row.volume
\* C36: the row stored for a window aggregates every tick accepted for the
\* window: when a call saves a bar over the row an earlier flush stored for the
\* same window, the bar aggregates the ticks of that row as well.
C36_RowAggregatesWindow ==
    \A row \in agg_run.replaced : \A bar \in agg_run.upserted :
        (SameBarKey(row, ToMongo(bar)) /\ \E d \in agg_run.delivered : Docs({row}) = {ToMongo(d)})
            => Extends(bar, row)
\* add_tick at price 10, flush_all_bars, add_tick of the same minute at price 8,
\* flush_all_bars: the second flush replaced the row that opened at 10 by the
\* bar of the one tick at 8
C36_Witness ==
    /\ agg_last.op = "flush_all_bars" /\ agg_calls = 4
    /\ \E row \in agg_last.replaced : \E bar \in agg_last.upserted :
          /\ SameBarKey(row, ToMongo(bar)) /\ bar.interval = "1m"
          /\ row.open = 10 /\ row.volume = 5
          /\ bar.open = 8 /\ bar.tick_count = 1
          /\ Row(ToMongo(bar), row.created_at) \in storage

\* ------------------------------------------------- the aggregator's lock
\* the step belongs to task p: the call of no other task moved
Stepped(p) == \A q \in LockTasks \ {p} : tasks'[q] = tasks[q]
\* C29: at most one task is inside the lock's body of add_tick or flush_all_bars,
\* and it is the task that holds the lock; every change of the builder map
\* (a builder created, replaced or fed by add_tick, the map cleared by
\* flush_all_bars) is made by one task while no other task is inside.
C29_MutualExclusion ==
    [][/\ \A p, q \in LockTasks :
             (Inside(p)' /\ Inside(q)') => (p = q /\ lock' = p)
       /\ bars' # bars
             => \E p \in LockTasks :
                   Stepped(p) /\ \A q \in LockTasks \ {p} : ~Inside(q) /\ ~Inside(q)']_vars
\* a flush_all_bars waits in acquire() while an add_tick that has replaced a
\* builder is suspended inside the lock
C29_Witness ==
    \E p, q \in LockTasks :
        /\ tasks[p].op = "add_tick" /\ tasks[p].pc = "cache" /\ lock = p
        /\ storage # {}
        /\ tasks[q].op = "flush_all_bars" /\ tasks[q].pc = "waiting"
        /\ lock_waiters = <<q>>

\* C30: no task awaits a storage write or a cache write while it holds the lock
\* that guards the builder map.
C30_NoIoUnderLock ==
    \A p \in LockTasks : tasks[p].io.call # "none" => lock # p
\* add_tick awaits Cache.set for the in-progress bar with the lock held, and
\* another call waits for the lock
C30_Witness ==
    \E p \in LockTasks :
        /\ tasks[p].op = "add_tick" /\ tasks[p].io.call = "Cache.set" /\ lock = p
        /\ lock_waiters # <<>>

\* a get_current_bar call returns
GetCurrentBarEnds == got'.at # got.at
\* the value Cache.set last stored under the upper-cased (exchange, symbol) and
\* the interval, if any
Published(key, i) == {bar_cache[k] : k \in {<<Upper(key), i>>} \cap DOMAIN bar_cache}
\* C32: get_current_bar returns the value last published for (exchange, symbol,
\* interval), or nothing if none was; the call takes no lock, waits for none and
\* leaves the lock, its waiters, the calls in progress, the builder map, the
\* collection and the cache as they were, whoever holds the lock.
C32_GetCurrentBarReadsCache ==
    [][GetCurrentBarEnds
          => /\ got'.found = (Published(got'.key, got'.interval) # {})
             /\ got'.found => Published(got'.key, got'.interval) = {got'.value}
             /\ UNCHANGED <<lock, lock_waiters, tasks, bars, storage, bar_cache>>]_vars
\* get_current_bar, called with a lower-case symbol while an add_tick holds the
\* lock and has fed the builder a second tick it has not published yet, returned
\* the bar published before
C32_Witness ==
    /\ got.found /\ got.key = "nasdaq:aapl" /\ got.interval = "5m"
    /\ got.value.tick_count = 1
    /\ \E p \in LockTasks :
          /\ lock = p /\ tasks[p].op = "add_tick" /\ tasks[p].pc = "cache"
          /\ bars["NASDAQ:AAPL"]["5m"].tick_count = 2

\* an add_tick call returns normally
LockAddTickReturns(p) ==
    /\ tasks[p].op = "add_tick" /\ Inside(p)
    /\ tasks'[p].pc = "idle" /\ ~tasks'[p].raised
\* C39: when an add_tick returns normally, the cache entry of every configured
\* interval for the tick's symbol is the state of the live builder of that
\* symbol and interval, whatever other calls are in progress.
C39_CacheMatchesBuilder ==
    [][\A p \in LockTasks :
          LockAddTickReturns(p)
             => \A n \in 1..Len(DefaultIntervals) :
                   LET key == tasks[p].tick.key
                       i == DefaultIntervals[n]
                   IN  /\ key \in DOMAIN bars' /\ i \in DOMAIN bars'[key]
                       /\ Published(key, i)' = {ToCacheDict(bars'[key][i])}]_vars
\* an add_tick has returned normally with the cache showing the builder it fed a
\* second tick, while another add_tick that was called meanwhile waits for the lock
C39_Witness ==
    \E p, q \in LockTasks :
        /\ tasks[p].op = "add_tick" /\ tasks[p].pc = "idle" /\ ~tasks[p].raised
        /\ tasks[q].op = "add_tick" /\ tasks[q].pc = "waiting"
        /\ bars["NASDAQ:AAPL"]["5m"].tick_count = 2
        /\ Published("NASDAQ:AAPL", "5m") = {ToCacheDict(bars["NASDAQ:AAPL"]["5m"])}

\* the task's awaited update_one raised: its call ends with the exception
SaveFails(p) ==
    /\ tasks[p].pc \in {"save", "fsave"}
    /\ tasks'[p].pc = "idle" /\ tasks'[p].raised
\* the map holds the builder, in the state given
Holds(b, x) ==
    /\ x.key \in DOMAIN b /\ x.interval \in DOMAIN b[x.key]
    /\ b[x.key][x.interval].bar_start = x.bar_start
\* C38: a builder that is not empty leaves the map, replaced at a rollover or
\* cleared by flush_all_bars, only with its bar stored by an update_one that
\* returned; when the update_one raises the map is unchanged, every builder in
\* the state it had, and the lock is released.
C38_SavedBeforeLeaving ==
    [][/\ \A x \in Range(FlushTodo(bars)) :
             ~Holds(bars', x) => ToMongo(ToAggregatedBar(x)) \in Docs(storage')
       /\ \A p \in LockTasks : SaveFails(p) => (bars' = bars /\ lock' = 0)]_vars
\* the update_one of a rollover raised: add_tick of the tick at 00:01:10 ended
\* with the exception, the one-minute builder of [00:00, 00:01) is still in the
\* map with its tick, nothing is stored and the lock is free
C38_Witness ==
    \E p \in LockTasks :
        /\ tasks[p].op = "add_tick" /\ tasks[p].tick.ts = Naive(70)
        /\ tasks[p].pc = "idle" /\ tasks[p].raised
        /\ bars["NASDAQ:AAPL"]["1m"].bar_start = Naive(0)
        /\ bars["NASDAQ:AAPL"]["1m"].tick_count = 1
        /\ storage = {} /\ lock = 0

\* ------------------------------------------------------------ the frame codec
\* the messages a chunk was made of, in order
RECURSIVE MessagesOf(_)
MessagesOf(ps) == IF ps = <<>> THEN <<>> ELSE Head(ps).msgs \o MessagesOf(Tail(ps))
\* the dicts among the values decoded
DictsOf(values) == SelectSeq(values, LAMBDA x : TypeOf(x) = "dict")
\* the JSON text of the piece holds no frame marker
MarkerFree(piece) == ReSplit(piece.body) = <<piece.body>>
\* the chunk is made of encoded messages and heartbeat frames only
FramesOnly ==
    \A n \in 1..Len(codec.pieces) : codec.pieces[n].kind \in {"message", "heartbeat"}

\* C22: the receive loop answers every heartbeat frame ~h~<n> of a chunk with one
\* frame ~m~<len>~m~~h~<n>, and hands every message of the chunk to
\* _handle_message.
C22_HeartbeatsAnswered ==
    codec.op = "recv"
        => /\ \A n \in 1..Len(codec.pieces) :
                 codec.pieces[n].kind = "heartbeat"
                     => \E j \in 1..Len(codec.echoed) :
                           codec.echoed[j] = Framed(codec.pieces[n].body)
           /\ Len(codec.echoed)
                  >= Len(SelectSeq(codec.pieces, LAMBDA q : q.kind = "heartbeat"))
           /\ DictsOf(codec.dispatched) = MessagesOf(codec.pieces)
\* a chunk of two heartbeat frames and a message was taken: the message was
\* dispatched, and one frame was echoed, for the first heartbeat
C22_Witness ==
    /\ codec.op = "recv" /\ codec.raised = "none"
    /\ Len(codec.pieces) = 3
    /\ codec.pieces[1] = HeartbeatPiece(1) /\ codec.pieces[2] = HeartbeatPiece(12)
    /\ codec.pieces[3].kind = "message"
    /\ codec.echoed = <<Framed(HeartbeatMark \o <<"1">>)>>
    /\ codec.dispatched = codec.pieces[3].msgs

\* C23: a chunk of encoded messages, with heartbeat frames anywhere between
\* them, decodes to exactly those messages in their order.
C23_MultiFrameDecode ==
    (codec.op = "_parse_messages" /\ FramesOnly)
        => codec.raised = "none" /\ codec.messages = MessagesOf(codec.pieces)
\* a chunk of two encoded messages, the second with a parameter that holds the
\* text of a frame marker, was decoded: the first message was returned alone
C23_Witness ==
    /\ codec.op = "_parse_messages" /\ codec.raised = "none"
    /\ Len(codec.pieces) = 2
    /\ codec.pieces[1] = MessagePiece(<<"a">>, <<JStr(<<"x">>)>>)
    /\ codec.pieces[2] = MessagePiece(<<"a">>, <<JStr(FrameMark \o <<"5">> \o FrameMark)>>)
    /\ codec.messages = codec.pieces[1].msgs

\* C24: decoding the frame _create_message builds returns the one message
\* {m: method, p: params}, whatever text the method and the parameters hold.
C24_RoundTrip ==
    codec.op = "_create_message"
        => /\ codec.raised = "none"
           /\ codec.messages = <<Message(codec.method, codec.params)>>
\* a message with a parameter that holds the text of a frame marker was encoded,
\* and decoding the frame returned no message
C24_Witness ==
    /\ codec.op = "_create_message" /\ codec.method = <<"a">>
    /\ codec.params = <<JStr(FrameMark \o <<"5">> \o FrameMark)>>
    /\ codec.messages = <<>>

\* C25: _parse_messages raises on no chunk and returns every message the chunk
\* holds, and no chunk takes run_forever out of its receive loop.
C25_DecodeNeverRaises ==
    /\ codec.op = "_parse_messages"
          => /\ codec.raised = "none"
             /\ DictsOf(codec.messages) = MessagesOf(codec.pieces)
    /\ codec.op = "recv" => pc["rf"] = "recv" /\ ws = rf_iter
\* a chunk of a message and a fragment nested too deep was decoded on an
\* interpreter that counts the nesting against its recursion limit: RecursionError
C25_Witness ==
    /\ codec.op = "_parse_messages" /\ codec.raised = "RecursionError"
    /\ codec.room = Room(RecursionLimit - MaxFrames)
    /\ Len(codec.pieces) = 2 /\ codec.pieces[1].kind = "message"
    /\ MarkerFree(codec.pieces[1]) /\ codec.pieces[2].body = TooDeep

\* the content the receive loop is to survive: a JSON fragment that is no dict,
\* an error message, a qsd with one parameter or with a second parameter that
\* is no dict
Survivable(piece) ==
    \/ piece.kind = "fragment" /\ piece.body = <<"5">>
    \/ /\ piece.kind = "message"
       /\ JGet(piece.msgs[1], <<"m">>, JStr(<<>>)) # JStr(<<"a">>)
\* C37: a chunk made of such content only is skipped or logged: run_forever
\* stays in the receive loop of the transport, which is still installed and open.
C37_ContentKeepsTransport ==
    (codec.op = "recv" /\ \A n \in 1..Len(codec.pieces) : Survivable(codec.pieces[n]))
        => (pc["rf"] = "recv" /\ ws = rf_iter /\ tstate[rf_iter] = "open")
\* the chunk was one qsd of the current session whose second parameter is a
\* number: AttributeError reached run_forever's except clause, which dropped the
\* open transport and sleeps before it reconnects
C37_Witness ==
    /\ codec.op = "recv" /\ Len(codec.pieces) = 1
    /\ codec.pieces[1] = MessagePiece(<<"q", "s", "d">>, <<JStr(SessionIdText(1)), JNum(7)>>)
    /\ codec.raised = "AttributeError"
    /\ pc["rf"] = "sleep" /\ ws = 0 /\ tstate[1] = "open"

\* ------------------------------------------------------------ one BarBuilder
\* add_tick was called on the two builders
FeedEnds == Len(fed') = Len(fed) + 1
\* the fields add_tick may write
Aggregates(b) == <<b.open, b.high, b.low, b.close, b.volume, b.tick_count>>
\* C17: add_tick with a timestamp before bar_start, or at or after bar_end,
\* returns false and changes none of open, high, low, close, volume and
\* tick_count; a timestamp equal to bar_end is rejected and one equal to
\* bar_start is accepted. Both BarBuilder classes behave so.
C17_RejectionBoundaries ==
    [][FeedEnds
          => LET e == fed'[Len(fed')]
                 ts == e.tick.ts
             IN  /\ (ts.s < builder.bar_start.s \/ ts.s >= builder.bar_end.s)
                       => /\ ~e.ret /\ ~e.dret
                          /\ Aggregates(builder') = Aggregates(builder)
                          /\ Aggregates(dbuilder') = Aggregates(dbuilder)
                 /\ ts = builder.bar_end => ~e.ret /\ ~e.dret
                 /\ ts = builder.bar_start
                       => /\ e.ret /\ e.dret
                          /\ builder'.tick_count = builder.tick_count + 1
                          /\ dbuilder'.tick_count = dbuilder.tick_count + 1
                          /\ builder'.close = e.tick.price
                          /\ dbuilder'.close = e.tick.price
                 /\ builder'.bar_start = builder.bar_start
                 /\ builder'.bar_end = builder.bar_end]_vars
\* a tick stamped bar_start was accepted, then ticks stamped bar_end and just
\* before bar_start were rejected, and the builder still holds the first alone
C17_Witness ==
    /\ Len(fed) = 3
    /\ fed[1].tick.ts = builder.bar_start /\ fed[1].ret /\ fed[1].dret
    /\ fed[2].tick.ts = builder.bar_end /\ ~fed[2].ret /\ ~fed[2].dret
    /\ fed[3].tick.ts.s = builder.bar_start.s - 1 /\ ~fed[3].ret
    /\ builder.tick_count = 1 /\ builder.close = fed[1].tick.price

\* the ticks the builder accepted, in order
Accepted == SelectSeq(fed, LAMBDA e : e.ret)
RECURSIVE SumOfVolumes(_)
SumOfVolumes(es) ==
    IF es = <<>> THEN 0
    ELSE (IF Head(es).tick.volume = None THEN 0 ELSE Head(es).tick.volume)
            + SumOfVolumes(Tail(es))
PricesOf(es) == {es[j].tick.price : j \in 1..Len(es)}
\* the ticks (10, 100), (12, 50), (8, 75) were accepted, in this order, and no other
ExampleAccepted ==
    /\ Len(Accepted) = 3
    /\ <<Accepted[1].tick.price, Accepted[1].tick.volume>> = <<10, 100>>
    /\ <<Accepted[2].tick.price, Accepted[2].tick.volume>> = <<12, 50>>
    /\ <<Accepted[3].tick.price, Accepted[3].tick.volume>> = <<8, 75>>
\* what the ticks accepted so far make of the builder
AggregatesAccepted(b) ==
    Accepted # <<>>
        => /\ b.open = Accepted[1].tick.price
           /\ b.high \in PricesOf(Accepted) /\ \A p \in PricesOf(Accepted) : p <= b.high
           /\ b.low \in PricesOf(Accepted) /\ \A p \in PricesOf(Accepted) : b.low <= p
           /\ b.close = Accepted[Len(Accepted)].tick.price
           /\ b.volume = SumOfVolumes(Accepted)
           /\ b.tick_count = Len(Accepted)
\* C18: once a builder has accepted ticks, open is the first accepted price, high
\* the greatest, low the least, close the last accepted price, volume the sum of
\* the volumes given and tick_count the number of accepted ticks; the ticks
\* (10, 100), (12, 50), (8, 75) give open 10, high 12, low 8, close 8, volume 225
\* and tick_count 3.
C18_Aggregation ==
    /\ AggregatesAccepted(builder)
    /\ AggregatesAccepted(dbuilder)
    /\ ExampleAccepted
          => Aggregates(builder) = <<10, 12, 8, 8, 225, 3>>
\* the builder has accepted the three ticks of the example
C18_Witness ==
    /\ ExampleAccepted
    /\ Aggregates(builder) = <<10, 12, 8, 8, 225, 3>>
    /\ Aggregates(dbuilder) = <<10, 12, 8, 8, 225, 3>>
\* C18 as stated: the same, with the example's close given as 75.
C18_AsStated ==
    /\ AggregatesAccepted(builder)
    /\ ExampleAccepted
          => Aggregates(builder) = <<10, 12, 8, 75, 225, 3>>

\* ------------------------------------------------------------------ alignment
\* _get_bar_start or get_bar_start was called on an interval of its table
Aligned ==
    \/ probe.op = "_get_bar_start" /\ probe.interval \in SupportedIntervals
    \/ probe.op = "get_bar_start" /\ probe.interval \in DomainIntervals
\* C20: for every timestamp t and supported interval i the call returns a start
\* with align(t, i) <= t < align(t, i) + duration(i) that aligns to itself; a
\* fixed-duration start is a multiple of the duration since the epoch, a daily
\* start is midnight of t's date.
C20_Alignment ==
    Aligned
       => LET d == DomainIntervalSeconds(probe.interval)
          IN  /\ probe.raised = "none"
              /\ probe.start.s <= probe.ts.s /\ probe.ts.s < probe.start.s + d
              /\ probe.again = probe.start
              /\ probe.start.s % d = 0
\* _get_bar_start was called with a timezone-aware timestamp and a one-minute
\* interval, and raised TypeError
C20_Witness ==
    /\ probe.op = "_get_bar_start" /\ probe.interval = "1m"
    /\ probe.ts.tz = "utc" /\ probe.raised = "TypeError"

\* ------------------------------------- the subscriptions and the transports
\* quote_add_symbols for key k was sent with the current session id
AddedUnderSession(k) ==
    \E n \in 1..Len(sent) :
        sent[n].m = "quote_add_symbols" /\ sent[n].key = k /\ sent[n].sid = session_id
\* the client is connected, run_forever receives, and no command is in progress
Settled ==
    /\ IsConnected /\ pc["rf"] = "recv" /\ ~rf_cancel
    /\ pc["start"] = "idle" /\ pc["stop"] = "idle" /\ pc["disc"] = "idle"
\* C33: whenever the client is connected and neither a connect nor a command is in
\* progress, quote_add_symbols has been sent under the current session id for
\* every key of the subscriptions map.
C33_SubscriptionsSentUnderSession ==
    Settled => \A k \in Range(subscriptions) : AddedUnderSession(k)
\* the feed was stopped and started again: run_forever receives on the second
\* transport under the second session, and the key subscribed under the first
\* session is in the map with no quote_add_symbols sent for it since
C33_Witness ==
    /\ Settled /\ ws = 2 /\ session_id = 2 /\ recon = NoRecon
    /\ subscriptions # <<>>
    /\ \A k \in Range(subscriptions) : ~AddedUnderSession(k)


\* the step hands a quote_add_symbols for key k to a transport
SendsAdd(k) ==
    /\ Len(sent') = Len(sent) + 1
    /\ sent'[Len(sent')].m = "quote_add_symbols" /\ sent'[Len(sent')].key = k
\* the last subscribe / unsubscribe call that ended was an unsubscribe of k that
\* returned, and no subscribe of k has been called since
Unsubscribed(k) ==
    /\ last_call.op = "unsubscribe" /\ last_call.key = k /\ last_call.res = "ok"
    /\ ~(api_run.op = "subscribe" /\ api_run.key = k)
\* C35: once unsubscribe has returned for a key, and until subscribe is called
\* again, no quote_add_symbols is sent for the key, whether the call was made on
\* an open transport or between a close and the reconnect.
C35_UnsubscribedNotReplayed ==
    [][\A k \in Keys :
          (Unsubscribed(k) /\ SendsAdd(k))
             => (SubscribeCalled /\ CalledKey = k)]_vars
\* unsubscribe returned while run_forever slept before its reconnect; after the
\* reconnect the key is in the map and the last frame sent is its
\* quote_add_symbols under the new session
C35_Witness ==
    \E k \in Keys :
        /\ Unsubscribed(k) /\ k \in Range(subscriptions)
        /\ recon.t = 2 /\ k \in recon.keys /\ sent # <<>>
        /\ sent[Len(sent)] = Frame(2, "quote_add_symbols", session_id, k, sid_gen)


\* the transports that are open
OpenTransports == {t \in Transports : tstate[t] = "open"}
\* C40: at most one transport is open at any time: a transport run_forever has
\* dropped on an error path is closed before the next one is opened.
C40_OneOpenTransport == Cardinality(OpenTransports) <= 1
\* run_forever dropped the open first transport on an exception of the dispatch
\* and receives on the second: both are open, the first referenced by nobody
C40_Witness ==
    /\ OpenTransports = {1, 2} /\ ws = 2 /\ rf_iter = 2
    /\ pc["rf"] = "recv" /\ pc["start"] = "idle" /\ recon.t = 2


\* ------------------------------------------------- the handlers' tasks
AliveRfTasks == {r \in RfTaskIds : Alive(r)}
\* C34: whatever the interleaving of the Start and Stop commands, at most one
\* run_forever task is alive, and it is the one state.ws_task refers to.
C34_OneFeedTask ==
    /\ Cardinality(AliveRfTasks) <= 1
    /\ \A r \in AliveRfTasks : ws_task_id = r
\* two Start commands ran concurrently: both returned "started" and two
\* run_forever tasks are alive; the first receives on the second transport, the
\* second, refused the same connection, has dropped it and sleeps before it
\* reconnects; state.ws_task refers to the second, and both transports are open
C34_Witness ==
    /\ \A h \in HandlerIds : handlers[h] = HandlerDone("start", "started")
    /\ cmd_count = 2
    /\ rf_tasks[1].st = "recv" /\ rf_tasks[1].iter = 2
    /\ rf_tasks[2].st = "sleep" /\ ws_task_id = 2 /\ ws = 0
    /\ OpenTransports = {1, 2}

====
